---- MODULE Spec2Model ----
(***************************************************************************)
(* Verification model of the odysail telemetry pipeline:                   *)
(*   - storage.RingBuffer            (src/memory_buffer.go)                *)
(*   - nmea.Collector pipeline       (src/collector.go, src/types.go)      *)
(*   - boomsense_sensor.EventDetector (src/boomsense_sensor/detector.go)   *)
(* Each subsystem has its own variables and its own specification; a       *)
(* specification leaves the variables of the other subsystems unchanged.   *)
(***************************************************************************)
EXTENDS Integers, Sequences, FiniteSets, TLC

(***************************************************************************)
(* Bounds of the model.                                                    *)
(***************************************************************************)
MaxCapacity == 3        \* ring capacities 1..MaxCapacity are explored
MaxPushes == 4          \* Push calls per behaviour of SpecRing
NumPGN == 3             \* distinct PGN keys used by SpecRing
MaxTimestamp == 2       \* message timestamps 1..MaxTimestamp in SpecRing
MaxPayloadLen == 9      \* payload lengths 0..MaxPayloadLen of the byte readers
MaxIterations == 2      \* iterations of BayesianQA.Update in a run
MaxFrames == 4          \* frames the broker delivers per behaviour

Min(a, b) == IF a < b THEN a ELSE b
Max(a, b) == IF a > b THEN a ELSE b

VARIABLES
    capacity,       \* RingBuffer.capacity
    data,           \* RingBuffer.data: slot (0..capacity-1) -> DecodedMessage
    head,           \* RingBuffer.head
    size,           \* RingBuffer.size
    latestByPGN,    \* RingBuffer.latestByPGN: map PGN -> *DecodedMessage
    heap,           \* the msg parameter of every Push call (escapes via &msg)
    pushed,         \* history: every message passed to Push, in call order
    inPush,         \* the Push holding rb.mu that has not yet taken indexMu
    held,           \* the pointer a caller of GetLatestByPGN still holds
    heldSeen        \* history: the message held pointed at when returned

readerVars == <<inPush, held, heldSeen>>
ringVars == <<capacity, data, head, size, latestByPGN, heap, pushed, readerVars>>

(***************************************************************************)
(* storage.DecodedMessage.  Decoded stands for a non-empty Fields map.     *)
(***************************************************************************)
ZeroMsg == [PGN |-> 0, Timestamp |-> 0, Decoded |-> FALSE]

RingPGNs == 1..NumPGN
RingMsgs == [PGN : RingPGNs, Timestamp : 1..MaxTimestamp, Decoded : {TRUE}]

\* The nil pointer returned by GetLatestByPGN.
Nil == [nil |-> TRUE]

\* No Push between its two critical sections.
NoPush == [none |-> TRUE]

(***************************************************************************)
(* Pointers to DecodedMessage: [copy |-> k] is the address of the msg      *)
(* parameter of the k-th Push call, [slot |-> i] the address of            *)
(* rb.data[i].  Load(ptr) is the message *ptr.                             *)
(***************************************************************************)
Load(ptr) ==
    IF ptr = Nil THEN Nil
    ELSE IF "copy" \in DOMAIN ptr THEN heap[ptr.copy]
    ELSE data[ptr.slot]

(***************************************************************************)
(* NewRingBuffer(capacity): zero-valued slots, empty index.                *)
(***************************************************************************)
NewRingBuffer(c) ==
    /\ capacity = c
    /\ data = [i \in 0..(c - 1) |-> ZeroMsg]
    /\ head = 0
    /\ size = 0
    /\ latestByPGN = <<>>
    /\ heap = <<>>
    /\ pushed = <<>>
    /\ inPush = NoPush
    /\ held = Nil
    /\ heldSeen = Nil

(***************************************************************************)
(* RingBuffer.Push(msg), in its parts.  StoreSlot is the update under      *)
(* rb.mu, with the call's parameter placed in heap; IndexEntry is the      *)
(* pointer &msg that StoreIndex writes into the index under indexMu.       *)
(***************************************************************************)
StoreSlotNoSaturate(msg) ==
    /\ data' = [data EXCEPT ![head] = msg]
    /\ head' = (head + 1) % capacity
    /\ size' = size + 1
    /\ heap' = Append(heap, msg)
    /\ pushed' = Append(pushed, msg)
    /\ UNCHANGED capacity

StoreSlot(msg) ==
    /\ data' = [data EXCEPT ![head] = msg]
    /\ head' = (head + 1) % capacity
    /\ size' = IF size < capacity THEN size + 1 ELSE size
    /\ heap' = Append(heap, msg)
    /\ pushed' = Append(pushed, msg)
    /\ UNCHANGED capacity

IndexEntrySlotAlias(slot, copy) == [slot |-> slot]

IndexEntry(slot, copy) == [copy |-> copy]

StoreIndexKeepNewestTimestamp(msg, ptr) ==
    latestByPGN' = [p \in (DOMAIN latestByPGN) \cup {msg.PGN} |->
                       IF p = msg.PGN
                       THEN IF /\ p \in DOMAIN latestByPGN
                               /\ Load(latestByPGN[p]).Timestamp
                                      > msg.Timestamp
                            THEN latestByPGN[p]
                            ELSE ptr
                       ELSE latestByPGN[p]]

StoreIndex(msg, ptr) ==
    latestByPGN' = [p \in (DOMAIN latestByPGN) \cup {msg.PGN} |->
                       IF p = msg.PGN THEN ptr ELSE latestByPGN[p]]

(***************************************************************************)
(* RingBuffer.Push(msg) as one step: with no concurrent reader the two     *)
(* critical sections are indistinguishable from one.                       *)
(***************************************************************************)
Push(msg) ==
    /\ StoreSlot(msg)
    /\ StoreIndex(msg, IndexEntry(head, Len(heap) + 1))
    /\ UNCHANGED readerVars

(***************************************************************************)
(* RingBuffer.GetRecent(n), n >= 0.                                        *)
(***************************************************************************)
GetRecentOffByOne(n) ==
    LET m == IF n > size THEN size ELSE n
    IN  [i \in 1..m |-> data[(head - (i - 1) + capacity) % capacity]]

GetRecent(n) ==
    LET m == IF n > size THEN size ELSE n
    IN  [i \in 1..m |-> data[(head - 1 - (i - 1) + capacity) % capacity]]

(***************************************************************************)
(* RingBuffer.GetByTimeRange(start, end): slots 0..size-1 in slot order,   *)
(* kept when start <= Timestamp <= end (Equal or After, Equal or Before).  *)
(***************************************************************************)
GetByTimeRangeExclusiveEnd(start, end) ==
    SelectSeq([i \in 1..size |-> data[i - 1]],
              LAMBDA msg : /\ (msg.Timestamp = start \/ msg.Timestamp > start)
                           /\ msg.Timestamp < end)

GetByTimeRange(start, end) ==
    SelectSeq([i \in 1..size |-> data[i - 1]],
              LAMBDA msg : /\ (msg.Timestamp = start \/ msg.Timestamp > start)
                           /\ (msg.Timestamp = end \/ msg.Timestamp < end))

(***************************************************************************)
(* RingBuffer.GetLatestByPGN(pgn) and RingBuffer.Size().                   *)
(***************************************************************************)
GetLatestByPGN(pgn) ==
    IF pgn \in DOMAIN latestByPGN THEN latestByPGN[pgn] ELSE Nil

\* The message a caller of GetLatestByPGN(pgn) reads through the result.
LatestMessage(pgn) == Load(GetLatestByPGN(pgn))

Size == size


(***************************************************************************)
(* boomsense_sensor.EventDetector (src/boomsense_sensor/detector.go).      *)
(* Units: time in 0.1 s, gyro in deg/s, boomNorm in 0.01, roll in 1/3 deg, *)
(* score in 0.1 points.  On this grid every threshold of DefaultConfig is  *)
(* a whole number.                                                         *)
(***************************************************************************)
VARIABLES
    edConfig,       \* EventDetector.config (with maxBufferSize)
    edBuffer,       \* EventDetector.buffer
    lastEventTime,  \* EventDetector.lastEventTime
    listeners,      \* EventDetector.listeners: "ok" returns, "panic" panics
    pending,        \* listener goroutines spawned by publish, not yet run
    deliveries,     \* history: <<listener, event>> of every listener call
    emitted,        \* history: every event passed to publish, in order
    registeredAt,   \* history: listeners registered when event k was published
    nSamples,       \* history: number of OnSample calls
    lastOutcome,    \* history: how the last OnSample call ended
    procCrashed,    \* an uncaught panic of a goroutine ended the process
    ramp            \* the scenario being fed (SpecRamp only)

detVars == <<edConfig, edBuffer, lastEventTime, listeners, pending,
             deliveries, emitted, registeredAt, nSamples, lastOutcome,
             procCrashed, ramp>>

(***************************************************************************)
(* Calls of the functions and methods checked on their own: the call made  *)
(* last and what it returned.                                              *)
(***************************************************************************)
VARIABLES
    call,           \* the call being made: function name and arguments
    ret             \* [value |-> v] once the call has returned v

callVars == <<call, ret>>

(***************************************************************************)
(* boomsense_sensor.Sensor: its calibrator, its Bayesian model and the two *)
(* files they are persisted in.                                            *)
(***************************************************************************)
VARIABLES
    calibration,    \* BoomCalibrator.calibration (Nil while uncalibrated)
    bq,             \* BayesianQA: [d, mu, vr]
    files,          \* [cal, bayes]: boom_calibration.json and
                    \* boom_bayes_posterior.json
    iterations,     \* number of iterations BayesianQA.Update has run
    filter          \* ComplementaryFilter: [tau, initialized, roll, pitch,
                    \* lastTime] (Nil while no filter is constructed)

sensorVars == <<calibration, bq, files, iterations, filter>>

sensVars == <<callVars, sensorVars>>

NoCall == [none |-> TRUE]

\* No call under way.
IdleCalls ==
    /\ call = NoCall
    /\ ret = NoCall

\* No sensor constructed: no calibrator, no Bayesian model, no file written.
IdleSensor ==
    /\ calibration = Nil
    /\ bq = Nil
    /\ files = [cal |-> [kind |-> "missing"], bayes |-> [kind |-> "missing"]]
    /\ iterations = 0
    /\ filter = Nil

(***************************************************************************)
(* nmea.Collector (src/collector.go).                                      *)
(***************************************************************************)
VARIABLES
    config,         \* Collector.config: QueueSize, DecoderWorkers, BufferSize
    brokerPGNs,     \* the PGNs of the frames the broker relays
    brokerPayloads, \* the payload shapes the broker relays
    mainPc,         \* position of the goroutine that calls Start() and Stop()
    connected,      \* the broker connection is up (client.IsConnected())
    subscribed,     \* onConnect's Subscribe succeeded: onMessage is called
    subFailed,      \* onConnect's Subscribe timed out or returned an error
    done,           \* Collector.done has been closed
    rawFrames,      \* Collector.rawFrames: buffered channel of RawFrame
    decodedData,    \* Collector.decodedData: buffered channel of DecodedMessage
    decPc,          \* decodeWorker(i): position
    decLocal,       \* decodeWorker(i): its frame / decoded message in hand
    stPc,           \* storageWorker: position
    stMsg,          \* storageWorker: the message in hand
    repPc,          \* statsReporter: position
    stats,          \* Collector.stats counters
    snapshot,       \* the last GetSnapshot() taken by statsReporter
    csvClosed,      \* csvWriter.Close() has been called
    csvRows,        \* number of WriteDecoded calls made so far
    summary,        \* Stop: the values read for the final statistics line
    nArrived,       \* history: number of frames onMessage offered to rawFrames
    accepted,       \* history: timestamps of the frames sent on rawFrames
    dropped         \* history: items discarded at each channel

envVars == <<config, brokerPGNs, brokerPayloads>>

collVars == <<envVars, mainPc, connected, subscribed, subFailed, done,
              rawFrames, decodedData, decPc, decLocal, stPc, stMsg, repPc,
              stats, snapshot, csvClosed, csvRows, summary, nArrived,
              accepted, dropped>>

QueueSize == config.QueueSize
DecoderWorkers == config.DecoderWorkers
BufferSize == config.BufferSize
\* The spawn loop of Start run once too often.
WorkersOneExtra == 0..DecoderWorkers

Workers == 0..(DecoderWorkers - 1)

\* Worker ids of the largest modelled pool.
WorkerIds == {0, 1}

\* PGN 1 has a registered handler, PGN 2 has none.
Handlers == {1}

NoItem == [none |-> TRUE]

(***************************************************************************)
(* NewCollector: empty channels of capacity QueueSize, open done channel,  *)
(* zero statistics; no goroutine runs before Start().                       *)
(***************************************************************************)
NewStatistics ==
    [MessagesProcessed |-> 0, DecodeSuccesses |-> 0, DecodeFailures |-> 0]

NewCollector(cfg) ==
    /\ config = cfg
    /\ mainPc = "new"
    /\ connected = FALSE
    /\ subscribed = FALSE
    /\ subFailed = FALSE
    /\ done = FALSE
    /\ rawFrames = <<>>
    /\ decodedData = <<>>
    /\ decPc = [i \in Workers |-> "idle"]
    /\ decLocal = [i \in Workers |-> NoItem]
    /\ stPc = "idle"
    /\ stMsg = NoItem
    /\ repPc = "idle"
    /\ stats = NewStatistics
    /\ snapshot = NoItem
    /\ csvClosed = FALSE
    /\ csvRows = 0
    /\ summary = NoItem
    /\ nArrived = 0
    /\ accepted = <<>>
    /\ dropped = [raw |-> 0, dec |-> 0, parse |-> 0]

(***************************************************************************)
(* The non-blocking send used by onMessage and decodeWorker:               *)
(*     select { case ch <- x: ; case <-c.done: return ; default: }         *)
(* Go chooses among the cases that can proceed; default runs only when     *)
(* none can.  The result is the set of possible outcomes.                  *)
(***************************************************************************)
TrySendDropOldest(ch, x) ==
    (IF Len(ch) < QueueSize
        THEN {[ch |-> Append(ch, x), out |-> "sent"]} ELSE {})
    \cup (IF done THEN {[ch |-> ch, out |-> "done"]} ELSE {})
    \cup (IF Len(ch) >= QueueSize /\ ~done
             THEN {[ch |-> Append(Tail(ch), x), out |-> "dropped"]} ELSE {})

TrySendBlocking(ch, x) ==
    (IF Len(ch) < QueueSize
        THEN {[ch |-> Append(ch, x), out |-> "sent"]} ELSE {})

TrySend(ch, x) ==
    (IF Len(ch) < QueueSize
        THEN {[ch |-> Append(ch, x), out |-> "sent"]} ELSE {})
    \cup (IF done THEN {[ch |-> ch, out |-> "done"]} ELSE {})
    \cup (IF Len(ch) >= QueueSize /\ ~done
             THEN {[ch |-> ch, out |-> "dropped"]} ELSE {})

(***************************************************************************)
(* Decoder.Decode, seen by its effect on the worker: TRUE when the field   *)
(* map is non-empty (a handler exists for the PGN).                        *)
(***************************************************************************)
DecodeAlwaysSucceeds(pgn) == TRUE

Decode(pgn) == pgn \in Handlers

\* PGNNames and MeasurementMap restricted to the modelled PGNs: PGN 1 stands
\* for 127257 (handler, "Attitude", "attitude"), PGN 3 for 127252 (no
\* handler, "Heave", "attitude"); PGN 2 appears in no table.
PGNNames == [p \in {1, 3} |-> IF p = 1 THEN "Attitude" ELSE "Heave"]
MeasurementMap == [p \in {1, 3} |-> "attitude"]

GetMeasurementType(pgn) ==
    IF pgn \in DOMAIN MeasurementMap THEN MeasurementMap[pgn] ELSE "nmea_general"

GetPGNName(pgn) ==
    IF pgn \in DOMAIN PGNNames THEN PGNNames[pgn] ELSE "Unknown"

\* RecordMessage without the MessagesProcessed increment: only the outcome
\* counters move.
RecordMessageOutcomeOnly(st, success) ==
    [st EXCEPT !.DecodeSuccesses = IF success THEN @ + 1 ELSE @,
               !.DecodeFailures = IF success THEN @ ELSE @ + 1]

\* Statistics.RecordMessage (under the statistics lock).
RecordMessage(st, success) ==
    [st EXCEPT !.MessagesProcessed = @ + 1,
               !.DecodeSuccesses = IF success THEN @ + 1 ELSE @,
               !.DecodeFailures = IF success THEN @ ELSE @ + 1]

\* Statistics.GetSnapshot (under the statistics lock).
GetSnapshot(st) ==
    [messages_processed |-> st.MessagesProcessed,
     decode_successes |-> st.DecodeSuccesses,
     decode_failures |-> st.DecodeFailures,
     success_rate |-> IF st.MessagesProcessed > 0
                      THEN (100 * st.DecodeSuccesses) \div st.MessagesProcessed
                      ELSE 0]

(***************************************************************************)
(* Collector.Start: connect, then spawn the workers.                       *)
(***************************************************************************)
\* Variant of AfterConnect that goes on to spawn the workers whatever the
\* outcome of the connect.
AfterConnectAlwaysSpawn(outcome) == "spawn"

\* token.WaitTimeout(10 s) / token.Error(): Start returns an error unless the
\* connect succeeded.
AfterConnect(outcome) == IF outcome = "ok" THEN "spawn" ELSE "startFailed"

StartConnect ==
    /\ mainPc = "new"
    /\ \E outcome \in {"ok", "timeout", "error"} :
          /\ connected' = (outcome = "ok")
          /\ mainPc' = AfterConnect(outcome)
    /\ UNCHANGED envVars
    /\ UNCHANGED <<subFailed, summary>>
    /\ UNCHANGED detVars
    /\ UNCHANGED sensVars
    /\ UNCHANGED <<subscribed, done, rawFrames, decodedData, decPc, decLocal,
                   stPc, stMsg, repPc, stats, snapshot, csvClosed, csvRows,
                   nArrived, accepted, dropped>>
    /\ UNCHANGED ringVars

\* The client's OnConnect callback: subscribe to the topic.  A timeout (5 s)
\* or an error of the subscription is logged and the callback returns.
OnConnect ==
    /\ connected /\ ~subscribed /\ ~subFailed
    /\ mainPc \in {"spawn", "running"}
    /\ \E outcome \in {"ok", "timeout", "error"} :
          /\ subscribed' = (outcome = "ok")
          /\ subFailed' = (outcome # "ok")
    /\ UNCHANGED envVars
    /\ UNCHANGED summary
    /\ UNCHANGED detVars
    /\ UNCHANGED sensVars
    /\ UNCHANGED <<mainPc, connected, done, rawFrames, decodedData, decPc,
                   decLocal, stPc, stMsg, repPc, stats, snapshot, csvClosed,
                   csvRows, nArrived, accepted, dropped>>
    /\ UNCHANGED ringVars

StartSpawn ==
    /\ mainPc = "spawn"
    /\ mainPc' = "running"
    /\ decPc' = [i \in Workers |-> "select"]
    /\ stPc' = "select"
    /\ repPc' = "select"
    /\ UNCHANGED envVars
    /\ UNCHANGED <<subFailed, summary>>
    /\ UNCHANGED detVars
    /\ UNCHANGED sensVars
    /\ UNCHANGED <<connected, subscribed, done, rawFrames, decodedData,
                   decLocal, stMsg, stats, snapshot, csvClosed, csvRows,
                   nArrived, accepted, dropped>>
    /\ UNCHANGED ringVars

(***************************************************************************)
(* Broker payloads and Collector.parseRawFrame.  A payload is the JSON     *)
(* text received: `object` tells whether json.Unmarshal into a map         *)
(* succeeds, `data` is the value under the "data" key: absent, a string    *)
(* (sequence of characters), an array (of numbers and other values) or a   *)
(* value of another type.                                                  *)
(***************************************************************************)
NoData == [kind |-> "absent", str |-> <<>>, arr |-> <<>>]
NotObjectPayload == [object |-> FALSE, data |-> NoData]
NoDataPayload == [object |-> TRUE, data |-> NoData]
OtherDataPayload == [object |-> TRUE, data |-> [NoData EXCEPT !.kind = "other"]]
HexPayload(str) ==
    [object |-> TRUE, data |-> [kind |-> "string", str |-> str, arr |-> <<>>]]
ArrayPayload(arr) ==
    [object |-> TRUE, data |-> [kind |-> "array", str |-> <<>>, arr |-> arr]]
Num(n) == [isNum |-> TRUE, num |-> n]
NotNum == [isNum |-> FALSE, num |-> 0]

Separators == {" ", ",", ":", "-"}
ToLower(c) == IF c = "A" THEN "a" ELSE IF c = "F" THEN "f" ELSE c
HexDigits == {"0", "1", "a", "f"}
HexVal(c) == IF c = "0" THEN 0 ELSE IF c = "1" THEN 1
             ELSE IF c = "a" THEN 10 ELSE 15

\* Variant of parseHexData that decodes the complete pairs of an odd-length
\* string instead of rejecting it.
ParseHexDataLenient(dataStr) ==
    LET kept == SelectSeq(dataStr, LAMBDA c : c \notin Separators)
        cleaned == [k \in 1..Len(kept) |-> ToLower(kept[k])]
    IN  IF \E k \in 1..Len(cleaned) : cleaned[k] \notin HexDigits
        THEN <<>>
        ELSE [k \in 1..(Len(cleaned) \div 2) |->
                 16 * HexVal(cleaned[2 * k - 1]) + HexVal(cleaned[2 * k])]

\* parseHexData: strip separators, lower-case, hex.DecodeString; nil on error.
parseHexData(dataStr) ==
    LET kept == SelectSeq(dataStr, LAMBDA c : c \notin Separators)
        cleaned == [k \in 1..Len(kept) |-> ToLower(kept[k])]
    IN  IF Len(cleaned) % 2 = 1 THEN <<>>
        ELSE IF \E k \in 1..Len(cleaned) : cleaned[k] \notin HexDigits
        THEN <<>>
        ELSE [k \in 1..(Len(cleaned) \div 2) |->
                 16 * HexVal(cleaned[2 * k - 1]) + HexVal(cleaned[2 * k])]

\* parseArrayData: one byte per numeric element, other elements skipped.
parseArrayData(dataArr) ==
    LET nums == SelectSeq(dataArr, LAMBDA v : v.isNum)
    IN  [k \in 1..Len(nums) |-> nums[k].num % 256]

\* parseRawFrame: nil without usable data, else the frame.
parseRawFrame(ts, pgn, payload) ==
    LET bytes == IF payload.data.kind = "string"
                 THEN parseHexData(payload.data.str)
                 ELSE IF payload.data.kind = "array"
                 THEN parseArrayData(payload.data.arr)
                 ELSE <<>>
    IN  IF payload.data.kind \notin {"string", "array"} THEN Nil
        ELSE IF Len(bytes) = 0 THEN Nil
        ELSE [Timestamp |-> ts, PGN |-> pgn, Data |-> bytes,
              Length |-> Len(bytes)]

\* The payloads the claims distinguish.
ValidPayloads ==
    { HexPayload(<<"0", "1">>),
      HexPayload(<<"A", "f", ":", "1", "0">>),
      ArrayPayload(<<Num(7), NotNum>>) }

InvalidPayloads ==
    { NotObjectPayload,
      NoDataPayload,
      OtherDataPayload,
      HexPayload(<<>>),
      HexPayload(<<" ", "-">>),
      HexPayload(<<"0", "g">>),
      HexPayload(<<"0", "1", "a">>),
      ArrayPayload(<<>>),
      ArrayPayload(<<NotNum>>) }

(***************************************************************************)
(* Collector.onMessage: a payload that is no JSON object or yields no      *)
(* frame is skipped; otherwise one non-blocking send on rawFrames.  The    *)
(* frame's timestamp is its arrival number.                                *)
(***************************************************************************)
OnMessage ==
    /\ subscribed /\ connected
    /\ nArrived < MaxFrames
    /\ \E pgn \in brokerPGNs, payload \in brokerPayloads :
          LET frame == IF payload.object
                       THEN parseRawFrame(nArrived + 1, pgn, payload)
                       ELSE Nil
          IN  IF frame = Nil
              THEN /\ dropped' = [dropped EXCEPT !.parse = @ + 1]
                   /\ UNCHANGED <<rawFrames, accepted>>
              ELSE \E r \in TrySend(rawFrames, frame) :
                      /\ rawFrames' = r.ch
                      /\ accepted' = IF r.out = "sent"
                                     THEN Append(accepted, frame.Timestamp)
                                     ELSE accepted
                      /\ dropped' = IF r.out = "sent" THEN dropped
                                    ELSE [dropped EXCEPT !.raw = @ + 1]
    /\ nArrived' = nArrived + 1
    /\ UNCHANGED envVars
    /\ UNCHANGED <<subFailed, summary>>
    /\ UNCHANGED detVars
    /\ UNCHANGED sensVars
    /\ UNCHANGED <<mainPc, connected, subscribed, done, decodedData, decPc,
                   decLocal, stPc, stMsg, repPc, stats, snapshot, csvClosed,
                   csvRows>>
    /\ UNCHANGED ringVars

(***************************************************************************)
(* Collector.decodeWorker(i).                                              *)
(***************************************************************************)
\* select: case frame := <-c.rawFrames; then decode the frame, build the
\* DecodedMessage and record the statistics.
DecRecv(i) ==
    /\ decPc[i] = "select"
    /\ rawFrames # <<>>
    /\ LET frame == Head(rawFrames)
           success == Decode(frame.PGN)
       IN  /\ decLocal' = [decLocal EXCEPT ![i] =
                              [Timestamp |-> frame.Timestamp,
                               PGN |-> frame.PGN,
                               PGNName |-> GetPGNName(frame.PGN),
                               Measurement |-> GetMeasurementType(frame.PGN),
                               Decoded |-> success,
                               Raw |-> frame.Data]]
           /\ stats' = RecordMessage(stats, success)
    /\ rawFrames' = Tail(rawFrames)
    /\ decPc' = [decPc EXCEPT ![i] = "send"]
    /\ UNCHANGED envVars
    /\ UNCHANGED <<subFailed, summary>>
    /\ UNCHANGED detVars
    /\ UNCHANGED sensVars
    /\ UNCHANGED <<mainPc, connected, subscribed, done, decodedData, stPc,
                   stMsg, repPc, snapshot, csvClosed, csvRows,
                   nArrived, accepted, dropped>>
    /\ UNCHANGED ringVars

\* select: case <-c.done
DecDone(i) ==
    /\ decPc[i] = "select"
    /\ done
    /\ decPc' = [decPc EXCEPT ![i] = "stopped"]
    /\ UNCHANGED envVars
    /\ UNCHANGED <<subFailed, summary>>
    /\ UNCHANGED detVars
    /\ UNCHANGED sensVars
    /\ UNCHANGED <<mainPc, connected, subscribed, done, rawFrames,
                   decodedData, decLocal, stPc, stMsg, repPc, stats, snapshot,
                   csvClosed, csvRows, nArrived, accepted, dropped>>
    /\ UNCHANGED ringVars

\* The inner select: non-blocking send on decodedData.
DecSend(i) ==
    /\ decPc[i] = "send"
    /\ \E r \in TrySend(decodedData, decLocal[i]) :
          /\ decodedData' = r.ch
          /\ decPc' = [decPc EXCEPT ![i] =
                          IF r.out = "done" THEN "stopped" ELSE "select"]
          /\ dropped' = IF r.out = "sent" THEN dropped
                        ELSE [dropped EXCEPT !.dec = @ + 1]
    /\ decLocal' = [decLocal EXCEPT ![i] = NoItem]
    /\ UNCHANGED envVars
    /\ UNCHANGED <<subFailed, summary>>
    /\ UNCHANGED detVars
    /\ UNCHANGED sensVars
    /\ UNCHANGED <<mainPc, connected, subscribed, done, rawFrames, stPc,
                   stMsg, repPc, stats, snapshot, csvClosed, csvRows,
                   nArrived, accepted>>
    /\ UNCHANGED ringVars

(***************************************************************************)
(* Collector.storageWorker.                                                *)
(***************************************************************************)
\* Variant of StRecv that takes the newest queued message instead of the
\* oldest.
StRecvNewest ==
    /\ stPc = "select"
    /\ decodedData # <<>>
    /\ stMsg' = decodedData[Len(decodedData)]
    /\ decodedData' = SubSeq(decodedData, 1, Len(decodedData) - 1)
    /\ Push(decodedData[Len(decodedData)])
    /\ stPc' = "csv"
    /\ UNCHANGED envVars
    /\ UNCHANGED <<subFailed, summary>>
    /\ UNCHANGED detVars
    /\ UNCHANGED sensVars
    /\ UNCHANGED <<mainPc, connected, subscribed, done, rawFrames, decPc,
                   decLocal, repPc, stats, snapshot, csvClosed, csvRows,
                   nArrived, accepted, dropped>>

\* select: case msg := <-c.decodedData; then c.buffer.Push(storageMsg)
StRecv ==
    /\ stPc = "select"
    /\ decodedData # <<>>
    /\ stMsg' = Head(decodedData)
    /\ decodedData' = Tail(decodedData)
    /\ Push(Head(decodedData))
    /\ stPc' = "csv"
    /\ UNCHANGED envVars
    /\ UNCHANGED <<subFailed, summary>>
    /\ UNCHANGED detVars
    /\ UNCHANGED sensVars
    /\ UNCHANGED <<mainPc, connected, subscribed, done, rawFrames, decPc,
                   decLocal, repPc, stats, snapshot, csvClosed, csvRows,
                   nArrived, accepted, dropped>>

StDone ==
    /\ stPc = "select"
    /\ done
    /\ stPc' = "stopped"
    /\ UNCHANGED envVars
    /\ UNCHANGED <<subFailed, summary>>
    /\ UNCHANGED detVars
    /\ UNCHANGED sensVars
    /\ UNCHANGED <<mainPc, connected, subscribed, done, rawFrames,
                   decodedData, decPc, decLocal, stMsg, repPc, stats,
                   snapshot, csvClosed, csvRows, nArrived, accepted, dropped>>
    /\ UNCHANGED ringVars

\* c.csvWriter.WriteDecoded(storageMsg)
StWriteCSV ==
    /\ stPc = "csv"
    /\ csvRows' = csvRows + 1
    /\ stMsg' = NoItem
    /\ stPc' = "select"
    /\ UNCHANGED envVars
    /\ UNCHANGED <<subFailed, summary>>
    /\ UNCHANGED detVars
    /\ UNCHANGED sensVars
    /\ UNCHANGED <<mainPc, connected, subscribed, done, rawFrames,
                   decodedData, decPc, decLocal, repPc, stats, snapshot,
                   csvClosed, nArrived, accepted, dropped>>
    /\ UNCHANGED ringVars

(***************************************************************************)
(* Collector.statsReporter.                                                *)
(***************************************************************************)
RepTick ==
    /\ repPc = "select"
    /\ snapshot' = snapshot
    /\ UNCHANGED envVars
    /\ UNCHANGED <<subFailed, summary>>
    /\ UNCHANGED detVars
    /\ UNCHANGED sensVars
    /\ UNCHANGED <<mainPc, connected, subscribed, done, rawFrames,
                   decodedData, decPc, decLocal, stPc, stMsg, repPc, stats,
                   csvClosed, csvRows, nArrived, accepted, dropped>>
    /\ UNCHANGED ringVars

RepDone ==
    /\ repPc = "select"
    /\ done
    /\ repPc' = "stopped"
    /\ UNCHANGED envVars
    /\ UNCHANGED <<subFailed, summary>>
    /\ UNCHANGED detVars
    /\ UNCHANGED sensVars
    /\ UNCHANGED <<mainPc, connected, subscribed, done, rawFrames,
                   decodedData, decPc, decLocal, stPc, stMsg, stats, snapshot,
                   csvClosed, csvRows, nArrived, accepted, dropped>>
    /\ UNCHANGED ringVars

(***************************************************************************)
(* Collector.Stop: close(done); Disconnect(1000); csvWriter.Close();       *)
(* final statistics line.                                                  *)
(***************************************************************************)
StopCloseDone ==
    /\ mainPc = "running"
    /\ done' = TRUE
    /\ mainPc' = "disconnect"
    /\ UNCHANGED envVars
    /\ UNCHANGED <<subFailed, summary>>
    /\ UNCHANGED detVars
    /\ UNCHANGED sensVars
    /\ UNCHANGED <<connected, subscribed, rawFrames, decodedData, decPc,
                   decLocal, stPc, stMsg, repPc, stats, snapshot, csvClosed,
                   csvRows, nArrived, accepted, dropped>>
    /\ UNCHANGED ringVars

StopDisconnect ==
    /\ mainPc = "disconnect"
    /\ connected' = FALSE
    /\ subscribed' = FALSE
    /\ mainPc' = "closeCsv"
    /\ UNCHANGED envVars
    /\ UNCHANGED <<subFailed, summary>>
    /\ UNCHANGED detVars
    /\ UNCHANGED sensVars
    /\ UNCHANGED <<done, rawFrames, decodedData, decPc, decLocal, stPc,
                   stMsg, repPc, stats, snapshot, csvClosed, csvRows,
                   nArrived, accepted, dropped>>
    /\ UNCHANGED ringVars

StopCloseCSV ==
    /\ mainPc = "closeCsv"
    /\ csvClosed' = TRUE
    /\ mainPc' = "readCheck"
    /\ UNCHANGED envVars
    /\ UNCHANGED <<subFailed, summary>>
    /\ UNCHANGED detVars
    /\ UNCHANGED sensVars
    /\ UNCHANGED <<connected, subscribed, done, rawFrames, decodedData,
                   decPc, decLocal, stPc, stMsg, repPc, stats, snapshot,
                   csvRows, nArrived, accepted, dropped>>
    /\ UNCHANGED ringVars

(***************************************************************************)
(* The final statistics line of Stop reads the counters without the        *)
(* statistics lock, one load after the other, while workers that have not  *)
(* yet seen done may still call RecordMessage:                             *)
(*     if c.stats.MessagesProcessed > 0 {                                  *)
(*         successRate = DecodeSuccesses / MessagesProcessed * 100 }       *)
(*     log.Printf(..., c.stats.MessagesProcessed, successRate)             *)
(* summary holds the locals of Stop: whether the rate was computed, and    *)
(* the two values loaded for it; they are gone when Stop returns.          *)
(***************************************************************************)
NewSummary == [computed |-> FALSE, successes |-> 0, processed |-> 0]

StopFrame ==
    /\ UNCHANGED envVars
    /\ UNCHANGED subFailed
    /\ UNCHANGED detVars
    /\ UNCHANGED sensVars
    /\ UNCHANGED <<connected, subscribed, done, rawFrames, decodedData,
                   decPc, decLocal, stPc, stMsg, repPc, stats, snapshot,
                   csvClosed, csvRows, nArrived, accepted, dropped>>
    /\ UNCHANGED ringVars

StopReadCheck ==
    /\ mainPc = "readCheck"
    /\ summary' = [NewSummary EXCEPT !.computed = (stats.MessagesProcessed > 0)]
    /\ mainPc' = IF stats.MessagesProcessed > 0 THEN "readSuccesses" ELSE "log"
    /\ StopFrame

StopReadSuccesses ==
    /\ mainPc = "readSuccesses"
    /\ summary' = [summary EXCEPT !.successes = stats.DecodeSuccesses]
    /\ mainPc' = "readProcessed"
    /\ StopFrame

StopReadProcessed ==
    /\ mainPc = "readProcessed"
    /\ summary' = [summary EXCEPT !.processed = stats.MessagesProcessed]
    /\ mainPc' = "log"
    /\ StopFrame

\* log.Printf loads MessagesProcessed once more and prints it with the rate.
StopLog ==
    /\ mainPc = "log"
    /\ summary' = NoItem
    /\ mainPc' = "stopped"
    /\ StopFrame

(***************************************************************************)
(* EventDetector: configuration and samples.                               *)
(***************************************************************************)
MaxSamples == 4         \* OnSample calls per behaviour of the detector specs
MaxListeners == 2       \* AddListener calls per behaviour of SpecListeners

\* DefaultConfig() in model units (0.1 s, deg/s, 0.01 boomNorm, 1/3 deg).
DefaultConfig ==
    [ MaxBufferSize    |-> 600,
      CrashGyDPS       |-> 120,   \* 120.0 deg/s
      NormalGyMin      |-> 20,    \* 20.0 deg/s
      BoomStepCrash    |-> 120,   \* 1.2
      BoomStepNormal   |-> 100,   \* 1.0
      CrashDT          |-> 6,     \* 0.6 s
      NormalDT         |-> 25,    \* 2.5 s
      RollHit          |-> 24,    \* 8.0 deg
      RollDT           |-> 4,     \* 0.4 s
      TackGyMin        |-> 15,    \* 15.0 deg/s
      TackGyMax        |-> 110,   \* 110.0 deg/s
      TackBoomStep     |-> 100,   \* 1.0
      TackDTMax        |-> 30,    \* 3.0 s
      TackMinRollDelta |-> 36,    \* 12.0 deg
      RefractoryPeriod |-> 30 ]   \* 3.0 s

\* The small-buffer configuration used where eviction must be reachable.
SmallConfig == [DefaultConfig EXCEPT !.MaxBufferSize = 3]

\* lastEventTime of a new detector (-1e9 s): further in the past than any
\* refractory period can reach back from a sample time >= 0.
NeverEmitted == -1000000000

\* math.IsInf / math.IsNaN filter of spanIn: a value is kept iff it is a number.
IsFinite(x) == x \in Int

Abs(x) == IF x < 0 THEN -x ELSE x

RECURSIVE SeqMax(_)
SeqMax(s) == IF Len(s) = 1 THEN s[1] ELSE Max(s[1], SeqMax(Tail(s)))

RECURSIVE SeqMin(_)
SeqMin(s) == IF Len(s) = 1 THEN s[1] ELSE Min(s[1], SeqMin(Tail(s)))

RECURSIVE SeqSum(_)
SeqSum(s) == IF s = <<>> THEN 0 ELSE s[1] + SeqSum(Tail(s))

NewEventDetector(cfg) ==
    /\ edConfig = cfg
    /\ edBuffer = <<>>
    /\ lastEventTime = NeverEmitted
    /\ listeners = <<>>
    /\ pending = {}
    /\ deliveries = <<>>
    /\ emitted = <<>>
    /\ registeredAt = <<>>
    /\ nSamples = 0
    /\ lastOutcome = "new"
    /\ procCrashed = FALSE

(***************************************************************************)
(* spanIn: statistics of the buffered samples with t >= max(0, tNow - h).  *)
(***************************************************************************)
spanIn(buf, tNow, horizon) ==
    LET t0  == Max(0, tNow - horizon)
        sub == SelectSeq(buf, LAMBDA s : s.t >= t0)
        n   == Len(sub)
        bnValid == [k \in 1..Len(SelectSeq(sub, LAMBDA s : IsFinite(s.boomNorm)))
                      |-> SelectSeq(sub, LAMBDA s : IsFinite(s.boomNorm))[k].boomNorm]
        rlValid == [k \in 1..Len(SelectSeq(sub, LAMBDA s : IsFinite(s.roll)))
                      |-> SelectSeq(sub, LAMBDA s : IsFinite(s.roll))[k].roll]
        gyros == [k \in 1..n |-> Abs(sub[k].gyro)]
    IN  IF n = 0
        THEN [dt |-> 0, gyPeak |-> 0, boomDelta |-> 0, rollDrop |-> 0,
              bnSeries |-> <<>>]
        ELSE [dt        |-> sub[n].t - sub[1].t,
              gyPeak    |-> Max(0, SeqMax(gyros)),
              boomDelta |-> IF Len(bnValid) >= 2
                            THEN SeqMax(bnValid) - SeqMin(bnValid) ELSE 0,
              rollDrop  |-> LET D == {rlValid[i] - rlValid[j] :
                                        <<i, j>> \in {p \in (1..Len(rlValid)) \X (1..Len(rlValid)) : p[1] < p[2]}}
                            IN  IF D = {} THEN 0
                                ELSE Max(0, CHOOSE d \in D : \A e \in D : e <= d),
              bnSeries  |-> bnValid]

\* time.Unix(0, int64(tNow*1e9)) and back (publish): on the 0.1 s grid the
\* nanosecond count of a sample time is exact, so the value is tNow itself.
EventTimestamp(tNow) == tNow

NoEvent == [Type |-> "", Timestamp |-> 0, Direction |-> "", GyroPeak |-> 0,
            BoomDelta |-> 0, RollDelta |-> 0, Duration |-> 0,
            Overshoot |-> [n |-> 0, d |-> 1], Score |-> 0]

tackDirection(bnSeries) ==
    IF Len(bnSeries) < 2 THEN ""
    ELSE IF bnSeries[1] > 0 /\ bnSeries[Len(bnSeries)] < 0 THEN "stb_to_port"
    ELSE IF bnSeries[1] < 0 /\ bnSeries[Len(bnSeries)] > 0 THEN "port_to_stb"
    ELSE ""

\* calculateOvershoot: the result is the fraction n/d of 0.01 boomNorm units
\* (d = tailN).  With exactly four values the last-third loop starts at
\* index len - 5 = -1 and the slice access panics.
calculateOvershoot(bnSeries) ==
    LET len == Len(bnSeries)
        tailN == Max(2, len \div 4)
        tailSum == SeqSum(SubSeq(bnSeries, len - tailN + 1, len))
        tailThird == Max(5, len \div 3)
        devs == [k \in 1..tailThird |->
                    Abs(bnSeries[len - tailThird + k] * tailN - tailSum)]
    IN  IF len < 4 THEN [panic |-> FALSE, n |-> 0, d |-> 1]
        ELSE IF len - tailThird < 0 THEN [panic |-> TRUE, n |-> 0, d |-> 1]
        ELSE [panic |-> FALSE,
              n |-> Max(0, Max(0, SeqMax(devs)) - 5 * tailN),
              d |-> tailN]

\* tackQualityScore in tenths of a point: the four components (TackComponents,
\* as numerators over the common denominator den) are summed and rounded half
\* away from zero.
TackComponents(dt, gyPeak, rollDrop, overshoot) ==
    LET dEff == Max(6, dt)
        od   == overshoot.d
    IN  [den   |-> dEff * 33 * od,
         tNum  |-> Max(0, 6400 * 33 * od),
         gyNum |-> Max(0, 3300 - 60 * Abs(gyPeak - 55)) * dEff * 3 * od,
         rlNum |-> Max(0, 8 * Min(rollDrop, 75)) * dEff * 11 * od,
         osNum |-> Max(0, 100 * od - 4 * Min(overshoot.n, 25 * od))
                       * dEff * 33]

tackQualityScoreUncapped(dt, gyPeak, rollDrop, overshoot) ==
    LET c   == TackComponents(dt, gyPeak, rollDrop, overshoot)
        num == c.tNum + c.gyNum + c.rlNum + c.osNum
    IN  (2 * num + c.den) \div (2 * c.den)

tackQualityScore(dt, gyPeak, rollDrop, overshoot) ==
    LET c   == TackComponents(dt, gyPeak, rollDrop, overshoot)
        num == c.tNum + c.gyNum + c.rlNum + c.osNum
    IN  Min(1000, (2 * num + c.den) \div (2 * c.den))

checkCrashGybe(buf, tNow, cfg) ==
    LET s == spanIn(buf, tNow, cfg.CrashDT)
    IN  IF s.gyPeak >= cfg.CrashGyDPS /\ s.boomDelta >= cfg.BoomStepCrash
        THEN [match |-> TRUE, panic |-> FALSE,
              evt |-> [NoEvent EXCEPT !.Type = "gybe_crash",
                                      !.Timestamp = EventTimestamp(tNow),
                                      !.GyroPeak = s.gyPeak,
                                      !.BoomDelta = s.boomDelta,
                                      !.RollDelta = s.rollDrop,
                                      !.Duration = s.dt]]
        ELSE [match |-> FALSE, panic |-> FALSE, evt |-> NoEvent]

checkNormalGybe(buf, tNow, cfg) ==
    LET s == spanIn(buf, tNow, cfg.NormalDT)
    IN  IF /\ s.gyPeak >= cfg.NormalGyMin
           /\ s.gyPeak < cfg.CrashGyDPS
           /\ s.boomDelta >= cfg.BoomStepNormal
        THEN [match |-> TRUE, panic |-> FALSE,
              evt |-> [NoEvent EXCEPT !.Type = "gybe_normal",
                                      !.Timestamp = EventTimestamp(tNow),
                                      !.GyroPeak = s.gyPeak,
                                      !.BoomDelta = s.boomDelta,
                                      !.RollDelta = s.rollDrop,
                                      !.Duration = s.dt]]
        ELSE [match |-> FALSE, panic |-> FALSE, evt |-> NoEvent]

checkTack(buf, tNow, cfg) ==
    LET s == spanIn(buf, tNow, cfg.TackDTMax)
        overshoot == calculateOvershoot(s.bnSeries)
    IN  IF /\ s.gyPeak >= cfg.TackGyMin
           /\ s.gyPeak <= cfg.TackGyMax
           /\ s.boomDelta >= cfg.TackBoomStep
           /\ s.rollDrop >= cfg.TackMinRollDelta
        THEN IF overshoot.panic
             THEN [match |-> TRUE, panic |-> TRUE, evt |-> NoEvent]
             ELSE [match |-> TRUE, panic |-> FALSE,
                   evt |-> [Type      |-> "tack",
                            Timestamp |-> EventTimestamp(tNow),
                            Direction |-> tackDirection(s.bnSeries),
                            GyroPeak  |-> s.gyPeak,
                            BoomDelta |-> s.boomDelta,
                            RollDelta |-> s.rollDrop,
                            Duration  |-> s.dt,
                            Overshoot |-> [n |-> overshoot.n, d |-> overshoot.d],
                            Score     |-> tackQualityScore(s.dt, s.gyPeak,
                                              s.rollDrop, overshoot)]]
        ELSE [match |-> FALSE, panic |-> FALSE, evt |-> NoEvent]

checkBoomHit(buf, tNow, cfg) ==
    LET s == spanIn(buf, tNow, cfg.RollDT)
    IN  IF s.gyPeak >= (cfg.CrashGyDPS + 20) /\ s.rollDrop >= cfg.RollHit
        THEN [match |-> TRUE, panic |-> FALSE,
              evt |-> [NoEvent EXCEPT !.Type = "boom_hit",
                                      !.Timestamp = EventTimestamp(tNow),
                                      !.GyroPeak = s.gyPeak,
                                      !.RollDelta = s.rollDrop,
                                      !.Duration = s.dt]]
        ELSE [match |-> FALSE, panic |-> FALSE, evt |-> NoEvent]

Emit(c) == IF c.panic THEN [kind |-> "panic", evt |-> NoEvent]
           ELSE [kind |-> "event", evt |-> c.evt]

\* Variants of maybeEmit used to test the properties below.
MaybeEmitNoRefractory(buf, last, tNow, cfg) ==
    IF checkCrashGybe(buf, tNow, cfg).match THEN Emit(checkCrashGybe(buf, tNow, cfg))
    ELSE IF checkNormalGybe(buf, tNow, cfg).match THEN Emit(checkNormalGybe(buf, tNow, cfg))
    ELSE IF checkTack(buf, tNow, cfg).match THEN Emit(checkTack(buf, tNow, cfg))
    ELSE IF checkBoomHit(buf, tNow, cfg).match THEN Emit(checkBoomHit(buf, tNow, cfg))
    ELSE [kind |-> "none", evt |-> NoEvent]

MaybeEmitTackFirst(buf, last, tNow, cfg) ==
    IF (tNow - last) < cfg.RefractoryPeriod
    THEN [kind |-> "refractory", evt |-> NoEvent]
    ELSE IF checkTack(buf, tNow, cfg).match THEN Emit(checkTack(buf, tNow, cfg))
    ELSE IF checkCrashGybe(buf, tNow, cfg).match THEN Emit(checkCrashGybe(buf, tNow, cfg))
    ELSE IF checkNormalGybe(buf, tNow, cfg).match THEN Emit(checkNormalGybe(buf, tNow, cfg))
    ELSE IF checkBoomHit(buf, tNow, cfg).match THEN Emit(checkBoomHit(buf, tNow, cfg))
    ELSE [kind |-> "none", evt |-> NoEvent]

\* maybeEmit: the refractory test, then the four rules in order; the first
\* match is published and ends the evaluation.
maybeEmit(buf, last, tNow, cfg) ==
    IF (tNow - last) < cfg.RefractoryPeriod
    THEN [kind |-> "refractory", evt |-> NoEvent]
    ELSE IF checkCrashGybe(buf, tNow, cfg).match THEN Emit(checkCrashGybe(buf, tNow, cfg))
    ELSE IF checkNormalGybe(buf, tNow, cfg).match THEN Emit(checkNormalGybe(buf, tNow, cfg))
    ELSE IF checkTack(buf, tNow, cfg).match THEN Emit(checkTack(buf, tNow, cfg))
    ELSE IF checkBoomHit(buf, tNow, cfg).match THEN Emit(checkBoomHit(buf, tNow, cfg))
    ELSE [kind |-> "none", evt |-> NoEvent]

\* Variant of SpawnListeners: calls in sequence, ended by the first panic.
SpawnUntilPanic(ls, e) ==
    {<<l, e>> : l \in {k \in 1..Len(ls) : \A j \in 1..(k - 1) : ls[j] # "panic"}}

\* The goroutines publish starts for event number e: one per listener.
SpawnListeners(ls, e) == {<<l, e>> : l \in 1..Len(ls)}

\* publish: record the event time, start one goroutine per listener.
publish(evt) ==
    /\ lastEventTime' = evt.Timestamp
    /\ emitted' = Append(emitted, evt)
    /\ registeredAt' = Append(registeredAt, Len(listeners))
    /\ pending' = pending \cup SpawnListeners(listeners, Len(emitted) + 1)

\* Variant of AppendSample: a full buffer refuses the new sample.
AppendSampleDropNewest(buf, sample, maxBufferSize) ==
    IF Len(buf) >= maxBufferSize THEN buf ELSE Append(buf, sample)

\* ed.buffer = append(ed.buffer, sample), then ed.buffer[1:] once it is
\* longer than maxBufferSize.
AppendSample(buf, sample, maxBufferSize) ==
    LET buf1 == Append(buf, sample)
    IN  IF Len(buf1) > maxBufferSize THEN Tail(buf1) ELSE buf1

\* OnSample: append, evict the oldest sample beyond maxBufferSize, maybeEmit.
OnSample(t, gyroY, boomNorm, roll) ==
    LET sample == [t |-> t, gyro |-> gyroY, boomNorm |-> boomNorm, roll |-> roll]
        buf2 == AppendSample(edBuffer, sample, edConfig.MaxBufferSize)
        out  == maybeEmit(buf2, lastEventTime, t, edConfig)
    IN  /\ edBuffer' = buf2
        /\ nSamples' = nSamples + 1
        /\ lastOutcome' = out.kind
        /\ IF out.kind = "event"
           THEN publish(out.evt)
           ELSE UNCHANGED <<lastEventTime, emitted, registeredAt, pending>>
        /\ UNCHANGED <<edConfig, listeners, deliveries, procCrashed>>

AddListener(fn) ==
    /\ listeners' = Append(listeners, fn)
    /\ UNCHANGED <<edConfig, edBuffer, lastEventTime, pending, deliveries,
                   emitted, registeredAt, nSamples, lastOutcome, procCrashed>>

\* A listener call inside its goroutine: a panic of the callback is caught by
\* the deferred recover; an uncaught panic of a goroutine ends the process.
RunListener(fn) == [panicked |-> fn = "panic", recovered |-> fn = "panic"]

ListenerRun(task) ==
    LET r == RunListener(listeners[task[1]])
    IN  /\ pending' = pending \ {task}
        /\ deliveries' = Append(deliveries, task)
        /\ procCrashed' = (procCrashed \/ (r.panicked /\ ~r.recovered))
        /\ UNCHANGED <<edConfig, edBuffer, lastEventTime, listeners, emitted,
                       registeredAt, nSamples, lastOutcome>>

NoRamp == [period |-> 0, profile |-> "", base |-> 0, k |-> 0]

(***************************************************************************)
(* nmea.PGNFromParts (src/decoder.go).  Bitwise operators on non-negative  *)
(* integers, bit by bit.                                                   *)
(***************************************************************************)
RECURSIVE BitAnd(_, _)
BitAnd(a, b) ==
    IF a = 0 \/ b = 0 THEN 0
    ELSE (a % 2) * (b % 2) + 2 * BitAnd(a \div 2, b \div 2)

RECURSIVE BitOr(_, _)
BitOr(a, b) ==
    IF a = 0 THEN b
    ELSE IF b = 0 THEN a
    ELSE (IF a % 2 = 1 \/ b % 2 = 1 THEN 1 ELSE 0)
             + 2 * BitOr(a \div 2, b \div 2)

ShiftLeft(a, n) == a * 2^n

PGNFromPartsAlwaysPS(dp, pf, ps) ==
    LET base == BitOr(ShiftLeft(BitAnd(dp, 1), 16), ShiftLeft(BitAnd(pf, 255), 8))
    IN  BitOr(base, BitAnd(ps, 255))

PGNFromParts(dp, pf, ps) ==
    LET base == BitOr(ShiftLeft(BitAnd(dp, 1), 16), ShiftLeft(BitAnd(pf, 255), 8))
    IN  IF pf < 240 THEN base ELSE BitOr(base, BitAnd(ps, 255))

(***************************************************************************)
(* The byte readers of src/decoder.go.  payload is a sequence of bytes     *)
(* (0..255) and offsets count from 0.  Values wider than 31 bits are kept  *)
(* as 16-bit limbs, lowest first: a uint32 as <<lo, hi>>, an int64 as four *)
(* limbs of which the last is signed.                                      *)
(***************************************************************************)
ByteAt(payload, offset) == payload[offset + 1]

\* binary.LittleEndian.Uint16(payload[offset : offset+2])
Uint16AtBigEndian(payload, offset) ==
    256 * ByteAt(payload, offset) + ByteAt(payload, offset + 1)

Uint16At(payload, offset) ==
    ByteAt(payload, offset) + 256 * ByteAt(payload, offset + 1)

\* binary.LittleEndian.Uint32 and Uint64, in limbs.
Uint32At(payload, offset) ==
    <<Uint16At(payload, offset), Uint16At(payload, offset + 2)>>

Uint64At(payload, offset) ==
    <<Uint16At(payload, offset), Uint16At(payload, offset + 2),
      Uint16At(payload, offset + 4), Uint16At(payload, offset + 6)>>

\* The conversions int8(b), int16(x), int32(x) and int64(x).
Int8(b) == IF b >= 128 THEN b - 256 ELSE b
Int16(x) == IF x >= 32768 THEN x - 65536 ELSE x
Int32(limbs) == Int16(limbs[2]) * 65536 + limbs[1]
Int64(limbs) == <<limbs[1], limbs[2], limbs[3], Int16(limbs[4])>>

\* An index or slice expression with a negative offset panics; it is
\* reached when the length test of the reader of width w passes.
ReadPanics(payload, offset, w) == offset < 0 /\ offset + (w - 1) < Len(payload)

u8(payload, offset) ==
    IF offset >= Len(payload) THEN 255 ELSE ByteAt(payload, offset)

u16le(payload, offset) ==
    IF offset + 1 >= Len(payload) THEN 65535 ELSE Uint16At(payload, offset)

u32le(payload, offset) ==
    IF offset + 3 >= Len(payload) THEN <<65535, 65535>>
    ELSE Uint32At(payload, offset)

i8(payload, offset) ==
    IF offset >= Len(payload) THEN 127 ELSE Int8(ByteAt(payload, offset))

i16le(payload, offset) ==
    IF offset + 1 >= Len(payload) THEN 32767 ELSE Int16(Uint16At(payload, offset))

i32le(payload, offset) ==
    IF offset + 3 >= Len(payload) THEN 2147483647
    ELSE Int32(Uint32At(payload, offset))

i64le(payload, offset) ==
    IF offset + 7 >= Len(payload) THEN <<65535, 65535, 65535, 32767>>
    ELSE Int64(Uint64At(payload, offset))

Readers == {"u8", "u16le", "u32le", "i8", "i16le", "i32le", "i64le"}

ReaderWidth(r) ==
    CASE r \in {"u8", "i8"} -> 1
      [] r \in {"u16le", "i16le"} -> 2
      [] r \in {"u32le", "i32le"} -> 4
      [] r = "i64le" -> 8

Read(r, payload, offset) ==
    CASE r = "u8" -> u8(payload, offset)
      [] r = "u16le" -> u16le(payload, offset)
      [] r = "u32le" -> u32le(payload, offset)
      [] r = "i8" -> i8(payload, offset)
      [] r = "i16le" -> i16le(payload, offset)
      [] r = "i32le" -> i32le(payload, offset)
      [] r = "i64le" -> i64le(payload, offset)

(***************************************************************************)
(* The PGN decoders (src/decoder.go and the second part of the nmea        *)
(* package).  A result map is modelled by its key set; the values are not  *)
(* needed.  NilFields is the nil map of "return nil, nil".                 *)
(***************************************************************************)
NilFields == [isNil |-> TRUE, keys |-> {}]

Fields(keys) == [isNil |-> FALSE, keys |-> keys]

\* "if raw != sentinel { result[k] = ... }" for each k in keys.
Unless(raw, sentinel, keys) == IF raw # sentinel THEN keys ELSE {}

decodePGN127257YawUnsigned(payload) ==
    IF Len(payload) < 7 THEN NilFields
    ELSE LET yawRaw == u16le(payload, 1)
             pitchRaw == i16le(payload, 3)
             rollRaw == i16le(payload, 5)
         IN  Fields({"sid"}
                 \cup Unless(yawRaw, 65535, {"yaw_rad", "yaw_deg"})
                 \cup Unless(pitchRaw, 32767, {"pitch_rad", "pitch_deg"})
                 \cup Unless(rollRaw, 32767,
                             {"roll_rad", "roll_deg", "heel_angle"}))

decodePGN127257(payload) ==
    IF Len(payload) < 7 THEN NilFields
    ELSE LET yawRaw == i16le(payload, 1)
             pitchRaw == i16le(payload, 3)
             rollRaw == i16le(payload, 5)
         IN  Fields({"sid"}
                 \cup Unless(yawRaw, 32767, {"yaw_rad", "yaw_deg"})
                 \cup Unless(pitchRaw, 32767, {"pitch_rad", "pitch_deg"})
                 \cup Unless(rollRaw, 32767,
                             {"roll_rad", "roll_deg", "heel_angle"}))

decodePGN130306(payload) ==
    IF Len(payload) < 6 THEN NilFields
    ELSE LET wsRaw == u16le(payload, 1)
             waRaw == u16le(payload, 3)
         IN  Fields({"sid", "wind_reference"}
                 \cup Unless(wsRaw, 65535, {"wind_speed_ms", "wind_speed_kts"})
                 \cup Unless(waRaw, 65535,
                             {"wind_angle_rad", "wind_angle_deg"}))

decodePGN129026(payload) ==
    IF Len(payload) < 8 THEN NilFields
    ELSE LET cogRaw == u16le(payload, 1)
             sogRaw == u16le(payload, 3)
         IN  Fields({"sid"}
                 \cup Unless(cogRaw, 65535, {"cog_rad", "cog_deg"})
                 \cup Unless(sogRaw, 65535, {"sog_ms", "sog_kts"}))

decodePGN127250(payload) ==
    IF Len(payload) < 8 THEN NilFields
    ELSE LET headingRaw == u16le(payload, 1)
             deviationRaw == i16le(payload, 3)
             variationRaw == i16le(payload, 5)
         IN  Fields({"sid", "heading_reference"}
                 \cup Unless(headingRaw, 65535, {"heading_rad", "heading_deg"})
                 \cup Unless(deviationRaw, 32767,
                             {"deviation_rad", "deviation_deg"})
                 \cup Unless(variationRaw, 32767,
                             {"variation_rad", "variation_deg"}))

decodePGN127251(payload) ==
    IF Len(payload) >= 8
    THEN LET rotRaw == i32le(payload, 1)
         IN  Fields({"sid"}
                 \cup Unless(rotRaw, 2147483647,
                             {"rate_of_turn_rad_s", "rate_of_turn_deg_s"}))
    ELSE IF Len(payload) >= 3
    THEN LET rotRaw == i16le(payload, 1)
         IN  Fields({"sid"}
                 \cup Unless(rotRaw, 32767,
                             {"rate_of_turn_rad_s", "rate_of_turn_deg_s"}))
    ELSE NilFields

decodePGN129025(payload) ==
    IF Len(payload) < 8 THEN NilFields
    ELSE LET latRaw == u32le(payload, 0)
             lonRaw == u32le(payload, 4)
         IN  Fields(Unless(latRaw, <<65535, 65535>>, {"latitude"})
                 \cup Unless(lonRaw, <<65535, 65535>>, {"longitude"}))

decodePGN128267InclusiveLength(payload) ==
    IF Len(payload) <= 5 THEN NilFields
    ELSE LET depthRaw == u32le(payload, 1)
         IN  Fields({"sid"} \cup Unless(depthRaw, <<65535, 65535>>, {"depth_m"}))

decodePGN128267(payload) ==
    IF Len(payload) < 5 THEN NilFields
    ELSE LET depthRaw == u32le(payload, 1)
         IN  Fields({"sid"} \cup Unless(depthRaw, <<65535, 65535>>, {"depth_m"}))

decodePGN128259(payload) ==
    IF Len(payload) < 7 THEN NilFields
    ELSE LET waterRaw == u16le(payload, 1)
             groundRaw == u16le(payload, 3)
         IN  Fields({"sid"}
                 \cup Unless(waterRaw, 65535,
                             {"water_speed_ms", "water_speed_kts"})
                 \cup Unless(groundRaw, 65535,
                             {"ground_speed_ms", "ground_speed_kts"}))

decodePGN128275(payload) ==
    IF Len(payload) < 8 THEN NilFields
    ELSE LET logRaw == u32le(payload, 0)
             tripRaw == u32le(payload, 4)
         IN  Fields(Unless(logRaw, <<65535, 65535>>, {"log_distance_m"})
                 \cup Unless(tripRaw, <<65535, 65535>>, {"trip_distance_m"}))

decodePGN129029(payload) ==
    IF Len(payload) < 43 THEN NilFields
    ELSE LET dateDays == u16le(payload, 1)
             timeRaw == u32le(payload, 3)
             latRaw == i64le(payload, 7)
             lonRaw == i64le(payload, 15)
             altRaw == i64le(payload, 23)
             hdopRaw == i16le(payload, 34)
             pdopRaw == i16le(payload, 36)
             geoidRaw == i32le(payload, 38)
         IN  Fields({"sid", "gnss_type", "method", "integrity", "satellites",
                     "reference_stations"}
                 \cup (IF dateDays # 65535 /\ timeRaw # <<65535, 65535>>
                       THEN {"fix_time_utc"} ELSE {})
                 \cup Unless(latRaw, <<65535, 65535, 65535, 32767>>,
                             {"latitude"})
                 \cup Unless(lonRaw, <<65535, 65535, 65535, 32767>>,
                             {"longitude"})
                 \cup Unless(altRaw, <<65535, 65535, 65535, 32767>>,
                             {"altitude_m"})
                 \cup Unless(hdopRaw, 32767, {"hdop"})
                 \cup Unless(pdopRaw, 32767, {"pdop"})
                 \cup Unless(geoidRaw, 2147483647, {"geoidal_separation_m"}))

decodePGN127245(payload) ==
    IF Len(payload) < 6 THEN NilFields
    ELSE LET angleOrderRaw == i16le(payload, 2)
             positionRaw == i16le(payload, 4)
         IN  Fields({"rudder_instance", "direction_order"}
                 \cup Unless(angleOrderRaw, 32767,
                             {"rudder_angle_order_rad",
                              "rudder_angle_order_deg"})
                 \cup Unless(positionRaw, 32767,
                             {"rudder_position_rad", "rudder_position_deg"}))

decodePGN127237(payload) ==
    IF Len(payload) < 8 THEN NilFields
    ELSE LET cmdRudderAngleRaw == i16le(payload, 3)
             headingToSteerRaw == u16le(payload, 5)
             trackRaw == u16le(payload, 7)
         IN  Fields({"rudder_limit_exceeded", "off_heading_exceeded",
                     "off_track_exceeded", "override", "steering_mode",
                     "turn_mode", "heading_reference",
                     "commanded_rudder_direction"}
                 \cup Unless(cmdRudderAngleRaw, 32767,
                             {"commanded_rudder_angle_rad"})
                 \cup Unless(headingToSteerRaw, 65535,
                             {"heading_to_steer_rad"})
                 \cup Unless(trackRaw, 65535, {"track_rad"}))

decodePGN129284(payload) ==
    IF Len(payload) < 8 THEN NilFields
    ELSE LET distCm == u32le(payload, 1)
             etaTimeRaw == u32le(payload, 6)
             etaDateRaw == u16le(payload, 10)
         IN  Fields({"sid", "bearing_reference", "perpendicular_crossed",
                     "arrival_circle_entered", "calculation_type"}
                 \cup Unless(distCm, <<65535, 65535>>,
                             {"distance_to_waypoint_m"})
                 \cup (IF /\ 6 + 4 <= Len(payload)
                          /\ etaDateRaw # 65535
                          /\ etaTimeRaw # <<65535, 65535>>
                       THEN {"eta_utc"} ELSE {}))

\* formatSatField(field, index): "sv_" + string(rune('0'+index)) + "_" + field,
\* for the indices the checked payloads reach.
formatSatField(field, index) ==
    "sv_" \o <<"1", "2", "3", "4", "5", "6", "7", "8", "9">>[index]
          \o "_" \o field

RECURSIVE SatelliteFields(_, _, _, _)
SatelliteFields(payload, i, offset, satsInView) ==
    IF ~(i <= satsInView /\ offset + 9 <= Len(payload)) THEN {}
    ELSE LET prn == u8(payload, offset)
             elevRaw == i16le(payload, offset + 1)
             azimRaw == u16le(payload, offset + 3)
             snrRaw == i16le(payload, offset + 5)
             rngRaw == u32le(payload, offset + 7)
         IN  Unless(prn, 255, {formatSatField("prn", i)})
                 \cup Unless(elevRaw, 32767,
                             {formatSatField("elevation_rad", i)})
                 \cup Unless(azimRaw, 65535,
                             {formatSatField("azimuth_rad", i)})
                 \cup Unless(snrRaw, 32767, {formatSatField("snr_dbhz", i)})
                 \cup Unless(rngRaw, <<65535, 65535>>,
                             {formatSatField("range_residual_m", i)})
                 \cup {formatSatField("status", i)}
                 \cup SatelliteFields(payload, i + 1, offset + 12, satsInView)

decodePGN129540(payload) ==
    IF Len(payload) < 3 THEN NilFields
    ELSE LET satsInView == u8(payload, 2)
         IN  Fields({"sid", "range_residual_mode", "sats_in_view"}
                 \cup SatelliteFields(payload, 1, 3, satsInView))

decodePGN126992(payload) ==
    IF Len(payload) < 8 THEN NilFields
    ELSE LET days == u16le(payload, 2)
             ms == u32le(payload, 4)
         IN  Fields({"sid", "time_source"}
                 \cup Unless(days, 65535, {"date"})
                 \cup Unless(ms, <<65535, 65535>>, {"time_of_day"}))

decodePGN127508(payload) ==
    IF Len(payload) < 8 THEN NilFields
    ELSE LET voltageRaw == u16le(payload, 1)
             currentRaw == i16le(payload, 3)
             tempRaw == u16le(payload, 5)
         IN  Fields({"battery_instance", "sid"}
                 \cup Unless(voltageRaw, 65535, {"battery_voltage_v"})
                 \cup Unless(currentRaw, 32767, {"battery_current_a"})
                 \cup Unless(tempRaw, 65535, {"battery_temperature_c"}))

decodePGN127489(payload) ==
    IF Len(payload) < 8 THEN NilFields
    ELSE LET oilPressureRaw == u16le(payload, 1)
             oilTempRaw == u16le(payload, 3)
             engineTempRaw == u16le(payload, 5)
             altVoltageRaw == u16le(payload, 7)
         IN  Fields({"engine_instance"}
                 \cup Unless(oilPressureRaw, 65535, {"oil_pressure_pa"})
                 \cup Unless(oilTempRaw, 65535, {"oil_temperature_c"})
                 \cup Unless(engineTempRaw, 65535, {"engine_temperature_c"})
                 \cup (IF Len(payload) >= 9 /\ altVoltageRaw # 65535
                       THEN {"alternator_voltage_v"} ELSE {}))

decodePGN130310(payload) ==
    IF Len(payload) < 12 THEN NilFields
    ELSE LET airTempRaw == u16le(payload, 4)
             waterTempRaw == u16le(payload, 6)
             humidityRaw == u16le(payload, 8)
             pressureRaw == u16le(payload, 10)
         IN  Fields({"sid"}
                 \cup Unless(airTempRaw, 65535, {"air_temperature_c"})
                 \cup Unless(waterTempRaw, 65535, {"water_temperature_c"})
                 \cup Unless(humidityRaw, 65535, {"relative_humidity_pct"})
                 \cup Unless(pressureRaw, 65535, {"atmospheric_pressure_hpa"}))

decodePGN130312(payload) ==
    IF Len(payload) < 6 THEN NilFields
    ELSE LET actualTempRaw == u16le(payload, 3)
             setTempRaw == u16le(payload, 5)
         IN  Fields({"sid", "temperature_instance", "temperature_source"}
                 \cup Unless(actualTempRaw, 65535, {"actual_temperature_c"})
                 \cup (IF Len(payload) >= 7 /\ setTempRaw # 65535
                       THEN {"set_temperature_c"} ELSE {}))

decodePGN130313(payload) ==
    IF Len(payload) < 6 THEN NilFields
    ELSE LET actualHumidityRaw == u16le(payload, 3)
         IN  Fields({"sid", "humidity_instance", "humidity_source"}
                 \cup Unless(actualHumidityRaw, 65535, {"actual_humidity_pct"}))

(***************************************************************************)
(* Decoder.Decode(pgn, data) with the handlers of registerDefaultHandlers; *)
(* an unregistered PGN returns the nil map.                                *)
(***************************************************************************)
RegisteredPGNs ==
    {127257, 127251, 130306, 127250, 129026, 129025, 129029, 128267, 128259,
     128275, 127245, 127237, 129284, 129540, 126992, 127508, 127489, 130310,
     130312, 130313}

DecoderDecode(pgn, payload) ==
    CASE pgn = 127257 -> decodePGN127257(payload)
      [] pgn = 127251 -> decodePGN127251(payload)
      [] pgn = 130306 -> decodePGN130306(payload)
      [] pgn = 127250 -> decodePGN127250(payload)
      [] pgn = 129026 -> decodePGN129026(payload)
      [] pgn = 129025 -> decodePGN129025(payload)
      [] pgn = 129029 -> decodePGN129029(payload)
      [] pgn = 128267 -> decodePGN128267(payload)
      [] pgn = 128259 -> decodePGN128259(payload)
      [] pgn = 128275 -> decodePGN128275(payload)
      [] pgn = 127245 -> decodePGN127245(payload)
      [] pgn = 127237 -> decodePGN127237(payload)
      [] pgn = 129284 -> decodePGN129284(payload)
      [] pgn = 129540 -> decodePGN129540(payload)
      [] pgn = 126992 -> decodePGN126992(payload)
      [] pgn = 127508 -> decodePGN127508(payload)
      [] pgn = 127489 -> decodePGN127489(payload)
      [] pgn = 130310 -> decodePGN130310(payload)
      [] pgn = 130312 -> decodePGN130312(payload)
      [] pgn = 130313 -> decodePGN130313(payload)
      [] OTHER -> NilFields

\* decodeWorker: success := err == nil && fields != nil && len(fields) > 0
DecodeSuccess(fields) == ~fields.isNil /\ fields.keys # {}

\* The outcome of a call that panics.
Panicked == [panic |-> TRUE]

(***************************************************************************)
(* float64 values as exact fractions [n, d] in lowest terms with d > 0,    *)
(* extended by the IEEE specials d = 0: n = 1 is +Inf, n = -1 is -Inf and  *)
(* n = 0 is NaN.  Rounding and the sign of zero are not modelled.          *)
(***************************************************************************)
RECURSIVE GCD(_, _)
GCD(a, b) == IF b = 0 THEN a ELSE GCD(b, a % b)

Sign(x) == IF x > 0 THEN 1 ELSE IF x < 0 THEN -1 ELSE 0

Rat(n, d) ==
    LET g == GCD(Abs(n), Abs(d))
    IN  [n |-> Sign(d) * (n \div g), d |-> Abs(d) \div g]

Float(n) == [n |-> n, d |-> 1]

PosInf == [n |-> 1, d |-> 0]
NegInf == [n |-> -1, d |-> 0]
NaN == [n |-> 0, d |-> 0]

IsNaN(a) == a = NaN
IsInf(a) == a.d = 0 /\ a.n # 0
IsFiniteFloat(a) == a.d # 0

FNeg(a) == [n |-> -a.n, d |-> a.d]

FAdd(a, b) ==
    IF IsNaN(a) \/ IsNaN(b) THEN NaN
    ELSE IF IsInf(a) /\ IsInf(b) THEN (IF a = b THEN a ELSE NaN)
    ELSE IF IsInf(a) THEN a
    ELSE IF IsInf(b) THEN b
    ELSE LET g == GCD(a.d, b.d)
         IN  Rat(a.n * (b.d \div g) + b.n * (a.d \div g), (a.d \div g) * b.d)

FSub(a, b) == FAdd(a, FNeg(b))

FMul(a, b) ==
    IF IsNaN(a) \/ IsNaN(b) THEN NaN
    ELSE IF IsInf(a) \/ IsInf(b)
         THEN (IF a.n = 0 \/ b.n = 0 THEN NaN
               ELSE [n |-> Sign(a.n) * Sign(b.n), d |-> 0])
    ELSE Rat(a.n * b.n, a.d * b.d)

FDiv(a, b) ==
    IF IsNaN(a) \/ IsNaN(b) THEN NaN
    ELSE IF IsInf(b) THEN (IF IsInf(a) THEN NaN ELSE Float(0))
    ELSE IF b.n = 0
         THEN (IF a.n = 0 THEN NaN ELSE [n |-> Sign(a.n), d |-> 0])
    ELSE IF IsInf(a) THEN [n |-> Sign(a.n) * Sign(b.n), d |-> 0]
    ELSE Rat(a.n * b.d, a.d * b.n)

\* a < b; false as soon as one side is NaN.
FLess(a, b) ==
    /\ ~IsNaN(a)
    /\ ~IsNaN(b)
    /\ IF IsInf(a) /\ IsInf(b) THEN a.n < b.n ELSE a.n * b.d < b.n * a.d

\* a >= b; false as soon as one side is NaN.
FGeq(a, b) == ~IsNaN(a) /\ ~IsNaN(b) /\ ~FLess(a, b)

\* math.Min, math.Max and math.Abs with their special cases.
mathMin(a, b) ==
    IF a = NegInf \/ b = NegInf THEN NegInf
    ELSE IF IsNaN(a) \/ IsNaN(b) THEN NaN
    ELSE IF FLess(a, b) THEN a ELSE b

mathMax(a, b) ==
    IF a = PosInf \/ b = PosInf THEN PosInf
    ELSE IF IsNaN(a) \/ IsNaN(b) THEN NaN
    ELSE IF FLess(b, a) THEN a ELSE b

mathAbs(a) == [n |-> Abs(a.n), d |-> a.d]

(***************************************************************************)
(* boomsense_sensor.BoomCalibrator (src/unnamed/part_001).  Angles are in  *)
(* degrees; a Calibration is [Mid, SpanPos, SpanNeg].                      *)
(***************************************************************************)
NoError == [err |-> "nil"]
Error(msg) == [err |-> msg]

\* The smallest span PerformCalibration computes: 1e-3 degrees.
MinSpan == Rat(1, 1000)

\* PerformCalibration lines 45-55: the calibration of four captures.
ComputeCalibrationFixedWeight(c0, stb, port, c1) ==
    LET midExt == FDiv(FAdd(stb, port), Float(2))
        cMid   == FDiv(FAdd(c0, c1), Float(2))
        wExt   == Rat(1, 2)
        mid    == FAdd(FMul(wExt, midExt), FMul(FSub(Float(1), wExt), cMid))
    IN  [Mid     |-> mid,
         SpanPos |-> mathMax(MinSpan, FSub(stb, mid)),
         SpanNeg |-> mathMax(MinSpan, FSub(mid, port))]

ComputeCalibration(c0, stb, port, c1) ==
    LET midExt == FDiv(FAdd(stb, port), Float(2))
        cMid   == FDiv(FAdd(c0, c1), Float(2))
        noise  == mathAbs(FSub(c1, c0))
        wExt   == mathMin(Rat(9, 10), FAdd(Rat(1, 2), FDiv(noise, Float(10))))
        mid    == FAdd(FMul(wExt, midExt), FMul(FSub(Float(1), wExt), cMid))
    IN  [Mid     |-> mid,
         SpanPos |-> mathMax(MinSpan, FSub(stb, mid)),
         SpanNeg |-> mathMax(MinSpan, FSub(mid, port))]

\* SetCalibration: the pointer is replaced, whatever it points to.
SetCalibration(cal) == calibration' = cal

\* The answers to "Apply this calibration? [Y/n]" that commit.
Accepts(ans) == ans \in {"", "y", "Y"}

\* PerformCalibration: ready is whether the filter delivers a value within
\* the ten seconds waited for it, the four captures are the medians
\* capturePoint returns, ans is the operator's answer to the prompt.
PerformCalibration(ready, c0, stb, port, c1, ans) ==
    LET cal == ComputeCalibration(c0, stb, port, c1)
    IN  /\ call' = [fn |-> "PerformCalibration", ready |-> ready, c0 |-> c0,
                    stb |-> stb, port |-> port, c1 |-> c1, ans |-> ans]
        /\ IF ~ready
           THEN /\ ret' = [value |-> Nil,
                           err |-> Error("filter not initialized in time")]
                /\ UNCHANGED calibration
           ELSE IF ~Accepts(ans)
           THEN /\ ret' = [value |-> Nil, err |-> Error("calibration aborted")]
                /\ UNCHANGED calibration
           ELSE /\ SetCalibration(cal)
                /\ ret' = [value |-> cal, err |-> NoError]
        /\ UNCHANGED <<bq, files, iterations, filter>>

\* ComputeBoom: (relDeg, norm, ok) of an axis value under the calibration
\* held.
ComputeBoom(axisValue) ==
    IF calibration = Nil
    THEN [relDeg |-> Float(0), norm |-> Float(0), ok |-> FALSE]
    ELSE LET d == FSub(axisValue, calibration.Mid)
             n == IF FGeq(d, Float(0))
                  THEN FDiv(d, calibration.SpanPos)
                  ELSE FDiv(d, calibration.SpanNeg)
         IN  [relDeg |-> d,
              norm   |-> mathMax(Rat(-11, 10), mathMin(Rat(11, 10), n)),
              ok     |-> TRUE]

\* encoding/json refuses NaN and the infinities.
Marshals(cal) ==
    IsFiniteFloat(cal.Mid) /\ IsFiniteFloat(cal.SpanPos) /\ IsFiniteFloat(cal.SpanNeg)

\* SaveToFile: the file is written only when a calibration is held, it can
\* be encoded and the path can be written.
SaveToFile ==
    /\ call' = [fn |-> "SaveToFile"]
    /\ IF calibration = Nil
       THEN /\ ret' = [value |-> Error("no calibration to save")]
            /\ UNCHANGED files
       ELSE IF ~Marshals(calibration)
       THEN /\ ret' = [value |-> Error("json: unsupported value")]
            /\ UNCHANGED files
       ELSE IF files.cal.kind = "unreadable"
       THEN /\ ret' = [value |-> Error("write")]
            /\ UNCHANGED files
       ELSE /\ ret' = [value |-> NoError]
            /\ files' = [files EXCEPT !.cal = [kind |-> "json",
                                               cal |-> calibration]]
    /\ UNCHANGED <<calibration, bq, iterations, filter>>

\* LoadFromFile: a missing file is no error and changes nothing; a file
\* that cannot be read or decoded is an error; anything that decodes is
\* installed as it is.  file.cal is the Calibration json.Unmarshal
\* produces, a key the file lacks being zero.  The result is the
\* calibration held afterwards and the error returned.
LoadedFromFile(file, current) ==
    CASE file.kind = "missing" -> [calibration |-> current, err |-> NoError]
      [] file.kind = "unreadable" -> [calibration |-> current, err |-> Error("read")]
      [] file.kind = "invalid" ->
            [calibration |-> current, err |-> Error("unmarshal")]
      [] file.kind = "json" -> [calibration |-> file.cal, err |-> NoError]

LoadFromFile ==
    LET r == LoadedFromFile(files.cal, calibration)
    IN  /\ call' = [fn |-> "LoadFromFile", file |-> files.cal]
        /\ SetCalibration(r.calibration)
        /\ ret' = [value |-> r.err]
        /\ UNCHANGED <<bq, files, iterations, filter>>

(***************************************************************************)
(* boomsense_sensor.BayesianQA (src/boomsense_sensor/bayesian.go): the     *)
(* struct is [d, mu, vr], mu and vr being sequences of floats.             *)
(***************************************************************************)
NewBayesianQA(d, sigma0) ==
    [d  |-> d,
     mu |-> [i \in 1..d |-> Float(0)],
     vr |-> [i \in 1..d |-> FMul(sigma0, sigma0)]]

\* sigmoid(z) = 1/(1 + exp(-clamp(z, -60, 60))) to the nearest quarter:
\* the bounds are the logits of 0.625 and 0.875, and an argument beyond
\* the second, the clamp at 60 included, gives 0 or 1.
SigmoidQuarters(z) ==
    LET a == mathAbs(z)
    IN  IF FLess(a, Rat(51, 100)) THEN 2
        ELSE IF FLess(a, Rat(39, 20)) THEN 2 + Sign(z.n)
        ELSE 2 + 2 * Sign(z.n)

\* NaN passes through math.Min and math.Max and comes out as NaN.
sigmoid(z) == IF IsNaN(z) THEN NaN ELSE Rat(SigmoidQuarters(z), 4)

\* sum over i < d of a[i] * b[i], as the loops of PredictProba and Update
\* accumulate it.
RECURSIVE Dot(_, _, _)
Dot(a, b, d) ==
    IF d = 0 THEN Float(0) ELSE FAdd(Dot(a, b, d - 1), FMul(a[d], b[d]))

\* The element-wise squares of x.
Squares(x) == [i \in 1..Len(x) |-> FMul(x[i], x[i])]

\* The value sigmoid(m / sqrt(1 + pi*s2/8)) PredictProba returns for a
\* vector of the right length, carried as its two arguments.
Probit(m, s2) == [probit |-> [m |-> m, s2 |-> s2]]

\* PredictProba: 0.5 for a vector of the wrong length; otherwise the
\* sigmoid of k*m with m = mu.x, s2 = sum of vr[i]*x[i]^2 and k =
\* 1/sqrt(1 + pi*s2/8).  Reading mu[i] or vr[i] beyond the end of the
\* slice panics.
PredictProba(b, x) ==
    IF Len(x) # b.d THEN [p |-> Rat(1, 2)]
    ELSE IF Len(b.mu) < b.d \/ Len(b.vr) < b.d THEN Panicked
    ELSE Probit(Dot(b.mu, x, b.d), Dot(b.vr, Squares(x), b.d))

\* One iteration of Update on a vector of length d.  The forward pass
\* reads mu[0..d-1] and panics on a shorter mu before anything is written;
\* the second loop panics at the first index vr lacks, the indices before
\* it already written.
UpdateIter(b, x, y) ==
    IF Len(b.mu) < b.d THEN [bq |-> b, panic |-> TRUE]
    ELSE LET p    == sigmoid(Dot(b.mu, x, b.d))
             n    == Min(b.d, Len(b.vr))
             g(i) == FMul(FSub(y, p), x[i])
             h(i) == FAdd(FMul(FMul(FMul(p, FSub(Float(1), p)), x[i]), x[i]),
                          FDiv(Float(1), b.vr[i]))
         IN  [bq |-> [d  |-> b.d,
                      mu |-> [i \in 1..Len(b.mu) |->
                                IF i <= n THEN FAdd(b.mu[i], FDiv(g(i), h(i)))
                                ELSE b.mu[i]],
                      vr |-> [i \in 1..Len(b.vr) |->
                                IF i <= n THEN FDiv(Float(1), h(i))
                                ELSE b.vr[i]]],
              panic |-> Len(b.vr) < b.d]

RECURSIVE UpdateIters(_, _, _, _)
UpdateIters(b, x, y, iters) ==
    IF iters = 0 THEN [bq |-> b, panic |-> FALSE]
    ELSE LET r == UpdateIter(b, x, y)
         IN  IF r.panic THEN r ELSE UpdateIters(r.bq, x, y, iters - 1)

\* Update with the length test left out: a shorter x panics in the forward
\* pass, a longer one is used up to d.
UpdateUnchecked(b, x, y, iters) ==
    IF Len(x) < b.d /\ iters > 0 THEN [bq |-> b, panic |-> TRUE]
    ELSE UpdateIters(b, x, y, iters)

\* Update: nothing happens for a vector of the wrong length.
Update(b, x, y, iters) ==
    IF Len(x) # b.d THEN [bq |-> b, panic |-> FALSE]
    ELSE UpdateIters(b, x, y, iters)

\* A JSON array, and an element of one that is not a number.
Array(elements) == [array |-> elements]
NotFloat == [notFloat |-> TRUE]

\* make([]float64, len) filled in from a decoded JSON array: an element
\* that is not a number leaves the zero make put there.
LoadSlice(array) ==
    [i \in 1..Len(array) |-> IF array[i] = NotFloat THEN Float(0) ELSE array[i]]

\* LoadState: any failure to read or decode the file is returned, the file
\* being missing included.  Of a decoded object the arrays under "mu" and
\* "var" replace bq.mu and bq.vr, each if present (Nil: the key is absent
\* or holds no array); "d" is not read.  The result is the model
\* afterwards and the error returned.
LoadedState(file, b) ==
    CASE file.kind = "missing" ->
            [bq |-> b, err |-> Error("no such file or directory")]
      [] file.kind = "unreadable" -> [bq |-> b, err |-> Error("read")]
      [] file.kind = "invalid" -> [bq |-> b, err |-> Error("unmarshal")]
      [] file.kind = "json" ->
            [bq  |-> [d  |-> b.d,
                      mu |-> IF file.mu = Nil THEN b.mu
                             ELSE LoadSlice(file.mu.array),
                      vr |-> IF file.var = Nil THEN b.vr
                             ELSE LoadSlice(file.var.array)],
             err |-> NoError]

LoadState ==
    LET r == LoadedState(files.bayes, bq)
    IN  /\ call' = [fn |-> "LoadState", file |-> files.bayes]
        /\ bq' = r.bq
        /\ ret' = [value |-> r.err]
        /\ UNCHANGED <<calibration, files, iterations, filter>>

\* Sensor.Start: both loads are tried and their errors dropped.  ret
\* keeps the two errors Start saw next to the nil it returns.
Start ==
    LET c == LoadedFromFile(files.cal, calibration)
        b == LoadedState(files.bayes, bq)
    IN  /\ call' = [fn |-> "Start", calibration |-> calibration, bq |-> bq]
        /\ SetCalibration(c.calibration)
        /\ bq' = b.bq
        /\ ret' = [value |-> NoError, loadFromFile |-> c.err,
                   loadState |-> b.err]
        /\ UNCHANGED <<files, iterations, filter>>

\* SaveState: {"mu", "var", "d"} is written unless a value cannot be
\* encoded or the path cannot be written.
SaveState ==
    /\ call' = [fn |-> "SaveState"]
    /\ IF \E i \in 1..Len(bq.mu) : ~IsFiniteFloat(bq.mu[i])
       THEN /\ ret' = [value |-> Error("json: unsupported value")]
            /\ UNCHANGED files
       ELSE IF \E i \in 1..Len(bq.vr) : ~IsFiniteFloat(bq.vr[i])
       THEN /\ ret' = [value |-> Error("json: unsupported value")]
            /\ UNCHANGED files
       ELSE IF files.bayes.kind = "unreadable"
       THEN /\ ret' = [value |-> Error("write")]
            /\ UNCHANGED files
       ELSE /\ ret' = [value |-> NoError]
            /\ files' = [files EXCEPT !.bayes = [kind |-> "json",
                                                 mu |-> Array(bq.mu),
                                                 var |-> Array(bq.vr),
                                                 d |-> bq.d]]
    /\ UNCHANGED <<calibration, bq, iterations, filter>>

(***************************************************************************)
(* The header part of Collector.parseRawFrame (src/collector.go).  A       *)
(* payload key holds a JSON number, a value of another JSON type, or is    *)
(* absent; the type assertion payload[k].(float64) succeeds for a number   *)
(* only and yields 0 otherwise.  Timestamps are Unix milliseconds:         *)
(* time.Unix(0, int64(ts)*1e6).  Numbers are integral and, where the code  *)
(* converts them to uint8, within 0..255.                                  *)
(***************************************************************************)
Number(n) == [kind |-> "number", num |-> n]
Text == [kind |-> "string", num |-> 0]
Absent == [kind |-> "absent", num |-> 0]

IsFloat64(v) == v.kind = "number"
Float64OrZero(v) == IF IsFloat64(v) THEN v.num ELSE 0

\* Variant of the header extraction that prefers `timestamp` to `ts` and
\* `id` to `src`.
parseFrameHeaderSecondKeyFirst(now, payload) ==
    [Timestamp |-> IF IsFloat64(payload.timestamp) THEN payload.timestamp.num
                   ELSE IF IsFloat64(payload.ts) THEN payload.ts.num
                   ELSE now,
     PGN |-> IF IsFloat64(payload.pgn) THEN payload.pgn.num
             ELSE PGNFromParts(Float64OrZero(payload.dp),
                               Float64OrZero(payload.pf),
                               Float64OrZero(payload.ps)),
     Source |-> IF IsFloat64(payload.id) THEN payload.id.num % 256
                ELSE IF IsFloat64(payload.src) THEN payload.src.num % 256
                ELSE 0]

\* parseRawFrame, lines 194-224: frame.Timestamp, frame.PGN, frame.Source.
parseFrameHeader(now, payload) ==
    [Timestamp |-> IF IsFloat64(payload.ts) THEN payload.ts.num
                   ELSE IF IsFloat64(payload.timestamp) THEN payload.timestamp.num
                   ELSE now,
     PGN |-> IF IsFloat64(payload.pgn) THEN payload.pgn.num
             ELSE PGNFromParts(Float64OrZero(payload.dp),
                               Float64OrZero(payload.pf),
                               Float64OrZero(payload.ps)),
     Source |-> IF IsFloat64(payload.src) THEN payload.src.num % 256
                ELSE IF IsFloat64(payload.id) THEN payload.id.num % 256
                ELSE 0]

(***************************************************************************)
(* BoomSenseMapper (src/boomsense_mapper.go): the boat speed fused from    *)
(* the latest-by-PGN index.  A message's Fields holds, per key, a number   *)
(* or nothing; speeds are whole knots.                                     *)
(***************************************************************************)
PGN_SOG == 129026
PGN_WaterSpeed == 128259

\* msg.Fields[key].(float64) on the latest message of a PGN: the value and ok.
LatestField(pgn, key) ==
    LET msg == LatestMessage(pgn)
    IN  IF msg # Nil /\ IsFloat64(msg.Fields[key])
        THEN [ok |-> TRUE, v |-> msg.Fields[key].num]
        ELSE [ok |-> FALSE, v |-> 0]

\* GetCurrentData, lines 74-88: the BoatSpeed field of the result.
GetCurrentData ==
    LET sog == LatestField(PGN_SOG, "sog_kts")
        ws == LatestField(PGN_WaterSpeed, "water_speed_kts")
        speed == IF sog.ok THEN sog.v ELSE 0
    IN  [BoatSpeed |-> IF speed = 0 /\ ws.ok THEN ws.v ELSE speed]

\* GetBoatSpeed, lines 116-133.
GetBoatSpeed ==
    LET sog == LatestField(PGN_SOG, "sog_kts")
        ws == LatestField(PGN_WaterSpeed, "water_speed_kts")
    IN  IF sog.ok THEN sog.v
        ELSE IF ws.ok THEN ws.v
        ELSE 0

(***************************************************************************)
(* ComplementaryFilter (src/boomsense_sensor/filter.go).  A reading has a  *)
(* time t in tenths of a second, accelerations in whole g and gyro rates   *)
(* in whole deg/s.  atan2 is tabulated, in degrees, for the arguments      *)
(* whose angle is a multiple of 45 degrees.                                *)
(***************************************************************************)
MaxReadings == 3        \* filter calls per behaviour of SpecFilter

Atan2Deg(y, x) ==
    CASE y = 0 /\ x >= 0 -> Float(0)
      [] y = 0 /\ x < 0 -> Float(180)
      [] x = 0 /\ y > 0 -> Float(90)
      [] x = 0 /\ y < 0 -> Float(-90)
      [] y = x /\ x > 0 -> Float(45)
      [] y = -x /\ x > 0 -> Float(-45)
      [] y = -x /\ x < 0 -> Float(135)
      [] y = x /\ x < 0 -> Float(-135)

\* math.Sqrt(ay*ay + az*az) where it is a whole number.
SqrtOfSquares(ay, az) ==
    CASE ay = 0 -> Abs(az)
      [] az = 0 -> Abs(ay)

\* accTiltDeg: roll = atan2(az, -ay), pitch = atan2(-ax, sqrt(ay^2 + az^2)).
accTiltDeg(ax, ay, az) ==
    [roll |-> Atan2Deg(az, -ay),
     pitch |-> IF ax = 0 THEN Float(0)
               ELSE Atan2Deg(-ax, SqrtOfSquares(ay, az))]

NewComplementaryFilter(tau) ==
    [tau |-> tau, initialized |-> FALSE, roll |-> Float(0),
     pitch |-> Float(0), lastTime |-> Float(0)]

MaxDt == Rat(2, 10)     \* dt is capped at 0.2 s

\* Variant of Update that integrates over the whole gap.
FilterUpdateUncapped(cf, reading) ==
    LET ts == Rat(reading.t, 10)
        acc == accTiltDeg(reading.AccelY, -reading.AccelZ, reading.AccelX)
        gx == Float(reading.GyroY)
        gy == Float(-reading.GyroZ)
        dt == FSub(ts, cf.lastTime)
        tau == mathMax(Rat(1, 1000), cf.tau)
        alpha == IF FLess(Float(0), dt) THEN FDiv(tau, FAdd(tau, dt))
                 ELSE Float(1)
        blend(prev, rate, tilt) ==
            FAdd(FMul(alpha, FAdd(prev, FMul(rate, dt))),
                 FMul(FSub(Float(1), alpha), tilt))
    IN  IF ~cf.initialized
        THEN [cf EXCEPT !.roll = acc.roll, !.pitch = acc.pitch,
                        !.lastTime = ts, !.initialized = TRUE]
        ELSE [cf EXCEPT !.lastTime = ts,
                        !.roll = blend(cf.roll, gx, acc.roll),
                        !.pitch = blend(cf.pitch, gy, acc.pitch)]

\* ComplementaryFilter.Update: the filter after the reading; the call returns
\* its roll and pitch.
FilterUpdate(cf, reading) ==
    LET ts == Rat(reading.t, 10)
        acc == accTiltDeg(reading.AccelY, -reading.AccelZ, reading.AccelX)
        gx == Float(reading.GyroY)
        gy == Float(-reading.GyroZ)
        dt0 == FSub(ts, cf.lastTime)
        dt == IF FLess(MaxDt, dt0) THEN MaxDt ELSE dt0
        tau == mathMax(Rat(1, 1000), cf.tau)
        alpha == IF FLess(Float(0), dt) THEN FDiv(tau, FAdd(tau, dt))
                 ELSE Float(1)
        blend(prev, rate, tilt) ==
            FAdd(FMul(alpha, FAdd(prev, FMul(rate, dt))),
                 FMul(FSub(Float(1), alpha), tilt))
    IN  IF ~cf.initialized
        THEN [cf EXCEPT !.roll = acc.roll, !.pitch = acc.pitch,
                        !.lastTime = ts, !.initialized = TRUE]
        ELSE [cf EXCEPT !.lastTime = ts,
                        !.roll = blend(cf.roll, gx, acc.roll),
                        !.pitch = blend(cf.pitch, gy, acc.pitch)]

\* GetState: (roll, pitch, initialized).
GetState(cf) == [roll |-> cf.roll, pitch |-> cf.pitch,
                 initialized |-> cf.initialized]

\* Reset: back to the state of a new filter of the same tau.
Reset(cf) == [cf EXCEPT !.initialized = FALSE, !.roll = Float(0),
                        !.pitch = Float(0), !.lastTime = Float(0)]

(***************************************************************************)
(* Sensor.ProcessIMU (src/unnamed/part_000), with BoomAxis = "roll".  The  *)
(* detector keeps boomNorm in hundredths and roll in thirds of a degree;   *)
(* the values handed to OnSample are rounded down to that resolution.  The *)
(* sensor's own sample buffers and CSV file are left out.                  *)
(***************************************************************************)
Hundredths(x) == (x.n * 100) \div x.d
Thirds(x) == (x.n * 3) \div x.d

\* Variant of FilteredBoom that keeps the zeros ComputeBoom returns while
\* uncalibrated.
FilteredBoomKeepZero(boom) == [BoomRelDeg |-> boom.relDeg, BoomNorm |-> boom.norm]

\* The boom fields of FilteredData: NaN for both when ComputeBoom reports
\* no calibration.
FilteredBoom(boom) ==
    IF ~boom.ok THEN [BoomRelDeg |-> NaN, BoomNorm |-> NaN]
    ELSE [BoomRelDeg |-> boom.relDeg, BoomNorm |-> boom.norm]

ProcessIMU(reading) ==
    LET cf == FilterUpdate(filter, reading)
        axisValue == cf.roll
        boom == ComputeBoom(axisValue)
        fb == FilteredBoom(boom)
        filtered == [Timestamp |-> reading.t, RollDeg |-> cf.roll,
                     PitchDeg |-> cf.pitch, BoomRelDeg |-> fb.BoomRelDeg,
                     BoomNorm |-> fb.BoomNorm]
    IN  /\ filter' = cf
        /\ IF boom.ok /\ ~IsNaN(filtered.BoomNorm) /\ ~IsInf(filtered.BoomNorm)
           THEN OnSample(reading.t, reading.GyroY,
                         Hundredths(filtered.BoomNorm), Thirds(cf.roll))
           ELSE UNCHANGED <<edConfig, edBuffer, lastEventTime, listeners,
                            pending, deliveries, emitted, registeredAt,
                            nSamples, lastOutcome, procCrashed>>
        /\ ret' = [value |-> filtered]

vars == <<ringVars, collVars, detVars, sensVars>>

(***************************************************************************)
(* SpecRing: a ring buffer of any capacity 1..MaxCapacity receiving any    *)
(* sequence of at most MaxPushes Push calls from one writer.               *)
(***************************************************************************)
InitRing ==
    /\ NewCollector([QueueSize |-> 1, DecoderWorkers |-> 1, BufferSize |-> 1])
    /\ brokerPGNs = {}
    /\ brokerPayloads = {}
    /\ \E c \in 1..MaxCapacity : NewRingBuffer(c)
    /\ NewEventDetector(SmallConfig)
    /\ IdleCalls
    /\ IdleSensor
    /\ ramp = NoRamp

RingPush ==
    /\ Len(pushed) < MaxPushes
    /\ \E msg \in RingMsgs : Push(msg)
    /\ UNCHANGED collVars
    /\ UNCHANGED detVars
    /\ UNCHANGED sensVars

NextRing == RingPush

SpecRing == InitRing /\ [][NextRing]_vars


(***************************************************************************)
(* SpecRange: the ring under pushes of two PGNs with timestamps in any     *)
(* order (decoder workers may reorder frames), for the time-range query.   *)
(***************************************************************************)
RangePush ==
    /\ Len(pushed) < MaxPushes
    /\ \E pgn \in {1, 2}, ts \in 1..MaxTimestamp :
          Push([PGN |-> pgn, Timestamp |-> ts, Decoded |-> TRUE])
    /\ UNCHANGED collVars
    /\ UNCHANGED detVars
    /\ UNCHANGED sensVars

NextRange == RangePush

SpecRange == InitRing /\ [][NextRange]_vars


(***************************************************************************)
(* SpecReader: one goroutine calling Push and one calling GetLatestByPGN   *)
(* on the same ring.  Push holds rb.mu throughout and indexMu only for the *)
(* index write; GetLatestByPGN takes indexMu alone, so it can run between  *)
(* the two parts of a Push.  Messages carry their arrival number as        *)
(* Timestamp.                                                              *)
(***************************************************************************)
InitReader ==
    /\ NewCollector([QueueSize |-> 1, DecoderWorkers |-> 1, BufferSize |-> 1])
    /\ brokerPGNs = {}
    /\ brokerPayloads = {}
    /\ \E c \in {1, 2} : NewRingBuffer(c)
    /\ NewEventDetector(SmallConfig)
    /\ IdleCalls
    /\ IdleSensor
    /\ ramp = NoRamp

WriterStoreSlot ==
    /\ inPush = NoPush
    /\ Len(pushed) < MaxPushes
    /\ \E pgn \in {1, 2} :
          LET msg == [PGN |-> pgn, Timestamp |-> Len(pushed) + 1,
                      Decoded |-> TRUE]
          IN  /\ StoreSlot(msg)
              /\ inPush' = [msg |-> msg,
                            ptr |-> IndexEntry(head, Len(heap) + 1)]
    /\ UNCHANGED <<latestByPGN, held, heldSeen>>
    /\ UNCHANGED collVars
    /\ UNCHANGED detVars
    /\ UNCHANGED sensVars

WriterStoreIndex ==
    /\ inPush # NoPush
    /\ StoreIndex(inPush.msg, inPush.ptr)
    /\ inPush' = NoPush
    /\ UNCHANGED <<capacity, data, head, size, heap, pushed, held, heldSeen>>
    /\ UNCHANGED collVars
    /\ UNCHANGED detVars
    /\ UNCHANGED sensVars

ReaderGet ==
    /\ \E pgn \in {1, 2} :
          /\ held' = GetLatestByPGN(pgn)
          /\ heldSeen' = Load(GetLatestByPGN(pgn))
    /\ UNCHANGED <<capacity, data, head, size, latestByPGN, heap, pushed,
                   inPush>>
    /\ UNCHANGED collVars
    /\ UNCHANGED detVars
    /\ UNCHANGED sensVars

NextReader == WriterStoreSlot \/ WriterStoreIndex \/ ReaderGet

SpecReader == InitReader /\ [][NextReader]_vars


(***************************************************************************)
(* SpecCollector: one collector from NewCollector on, with DecoderWorkers  *)
(* decoder workers, queues of QueueSize and at most MaxFrames deliveries.  *)
(***************************************************************************)
InitCollector ==
    /\ NewCollector([QueueSize |-> 2, DecoderWorkers |-> 2, BufferSize |-> 2])
    /\ brokerPGNs = {1}
    /\ brokerPayloads = {HexPayload(<<"0", "1">>)}
    /\ NewRingBuffer(2)
    /\ NewEventDetector(SmallConfig)
    /\ IdleCalls
    /\ IdleSensor
    /\ ramp = NoRamp

DecoderStep(i) == DecRecv(i) \/ DecDone(i) \/ DecSend(i)
StorageStep == StRecv \/ StDone \/ StWriteCSV
ReporterStep == RepTick \/ RepDone

NextCollector ==
    \/ StartConnect
    \/ OnConnect
    \/ StartSpawn
    \/ OnMessage
    \/ \E i \in Workers : DecRecv(i)
    \/ \E i \in Workers : DecDone(i)
    \/ \E i \in Workers : DecSend(i)
    \/ StRecv
    \/ StDone
    \/ StWriteCSV
    \/ RepTick
    \/ RepDone
    \/ StopCloseDone
    \/ StopDisconnect
    \/ StopCloseCSV

SpecCollector == InitCollector /\ [][NextCollector]_vars

(***************************************************************************)
(* Scheduling: a goroutine that can take a step eventually takes one, and  *)
(* a select at which the closed done channel stays ready eventually takes  *)
(* that case (Go picks uniformly among the ready cases).                   *)
(***************************************************************************)
FairCollector ==
    /\ SpecCollector
    /\ \A i \in WorkerIds : WF_vars(DecoderStep(i))
    /\ WF_vars(StorageStep)
    /\ WF_vars(RepDone)

(***************************************************************************)
(* Properties of the ring buffer (checked under SpecRing).                 *)
(***************************************************************************)
(* SpecSingle: the collector with one decoder worker and a broker that     *)
(* relays frames of a PGN with a handler and of a PGN without one.         *)
(***************************************************************************)
InitSingle ==
    /\ NewCollector([QueueSize |-> 2, DecoderWorkers |-> 1, BufferSize |-> 2])
    /\ brokerPGNs = {1, 2}
    /\ brokerPayloads = {HexPayload(<<"0", "1">>)}
    /\ NewRingBuffer(2)
    /\ NewEventDetector(SmallConfig)
    /\ IdleCalls
    /\ IdleSensor
    /\ ramp = NoRamp

SpecSingle == InitSingle /\ [][NextCollector]_vars

(***************************************************************************)
(* SpecParse: the collector with one decoder worker and queues of one      *)
(* frame, fed every payload shape, usable or not.                          *)
(***************************************************************************)
InitParse ==
    /\ NewCollector([QueueSize |-> 1, DecoderWorkers |-> 1, BufferSize |-> 1])
    /\ brokerPGNs = {1}
    /\ brokerPayloads = InvalidPayloads \cup {HexPayload(<<"A", "f", ":", "1", "0">>)}
    /\ NewRingBuffer(1)
    /\ NewEventDetector(SmallConfig)
    /\ IdleCalls
    /\ IdleSensor
    /\ ramp = NoRamp

SpecParse == InitParse /\ [][NextCollector]_vars

(***************************************************************************)
(* SpecStop: the collector with two decoder workers and queues of one      *)
(* frame, followed through the final statistics line of Stop.              *)
(***************************************************************************)
InitStop ==
    /\ NewCollector([QueueSize |-> 1, DecoderWorkers |-> 2, BufferSize |-> 1])
    /\ brokerPGNs = {1}
    /\ brokerPayloads = {HexPayload(<<"0", "1">>)}
    /\ NewRingBuffer(1)
    /\ NewEventDetector(SmallConfig)
    /\ IdleCalls
    /\ IdleSensor
    /\ ramp = NoRamp

NextStop ==
    \/ NextCollector
    \/ StopReadCheck
    \/ StopReadSuccesses
    \/ StopReadProcessed
    \/ StopLog

SpecStop == InitStop /\ [][NextStop]_vars

(***************************************************************************)
(* SpecDetector: one detector with a three-sample buffer receiving any     *)
(* sequence of at most MaxSamples samples, in any timestamp order.         *)
(***************************************************************************)
SampleTimes == {0, 3, 33}

SampleShapes ==
    { [gyro |-> 60,  boomNorm |-> 60,  roll |-> 45],
      [gyro |-> 60,  boomNorm |-> -60, roll |-> 0],
      [gyro |-> 150, boomNorm |-> -60, roll |-> 0],
      [gyro |-> 150, boomNorm |-> 60,  roll |-> 0] }

InitDetector ==
    /\ NewCollector([QueueSize |-> 1, DecoderWorkers |-> 1, BufferSize |-> 1])
    /\ brokerPGNs = {}
    /\ brokerPayloads = {}
    /\ NewRingBuffer(1)
    /\ NewEventDetector(SmallConfig)
    /\ IdleCalls
    /\ IdleSensor
    /\ ramp = NoRamp

DetSample ==
    /\ nSamples < MaxSamples
    /\ ~procCrashed
    /\ \E t \in SampleTimes, sh \in SampleShapes :
          OnSample(t, sh.gyro, sh.boomNorm, sh.roll)
    /\ UNCHANGED <<ringVars, collVars, sensVars, ramp>>

NextDetector == DetSample

SpecDetector == InitDetector /\ [][NextDetector]_vars

(***************************************************************************)
(* SpecListeners: listeners are added, samples arrive and the listener     *)
(* goroutines run, in any interleaving.                                    *)
(***************************************************************************)
ListenerKinds == {"ok", "panic"}

ListenerSamples ==
    { [t |-> 0,  gyro |-> 60, boomNorm |-> -60, roll |-> 0],
      [t |-> 3,  gyro |-> 60, boomNorm |-> 60,  roll |-> 45],
      [t |-> 33, gyro |-> 60, boomNorm |-> -60, roll |-> 0] }

LsnAdd ==
    /\ Len(listeners) < MaxListeners
    /\ ~procCrashed
    /\ \E fn \in ListenerKinds : AddListener(fn)
    /\ UNCHANGED <<ringVars, collVars, sensVars, ramp>>

LsnSample ==
    /\ nSamples < MaxSamples
    /\ ~procCrashed
    /\ \E s \in ListenerSamples : OnSample(s.t, s.gyro, s.boomNorm, s.roll)
    /\ UNCHANGED <<ringVars, collVars, sensVars, ramp>>

LsnRun ==
    /\ ~procCrashed
    /\ \E task \in pending : ListenerRun(task)
    /\ UNCHANGED <<ringVars, collVars, sensVars, ramp>>

NextListeners == LsnAdd \/ LsnSample \/ LsnRun

SpecListeners == InitDetector /\ [][NextListeners]_vars

(***************************************************************************)
(* SpecRamp: the scenario "3-second ramp": samples every `period` tenths   *)
(* of a second from t = base to base + 3 s, boomNorm falling linearly from *)
(* 0.6 to -0.6, roll from 15 to -5 degrees, gyro with peak 60 deg/s, fed   *)
(* to a detector with the default configuration.                           *)
(***************************************************************************)
RampPeriods == {1, 2, 3, 5, 6}
RampProfiles == {"flat", "bell"}
RampBases == {0, 100}

RampOffset(r) == r.k * r.period
RampDone == ramp.period > 0 /\ RampOffset(ramp) > DefaultConfig.TackDTMax

RampGyro(r) ==
    IF r.profile = "flat" THEN 60
    ELSE IF RampOffset(r) >= 10 /\ RampOffset(r) <= 20 THEN 60 ELSE 30

RampBoomNorm(r) == 60 - 4 * RampOffset(r)
RampRoll(r) == 45 - 2 * RampOffset(r)

InitRamp ==
    /\ NewCollector([QueueSize |-> 1, DecoderWorkers |-> 1, BufferSize |-> 1])
    /\ brokerPGNs = {}
    /\ brokerPayloads = {}
    /\ NewRingBuffer(1)
    /\ NewEventDetector(DefaultConfig)
    /\ IdleCalls
    /\ IdleSensor
    /\ \E p \in RampPeriods, f \in RampProfiles, b \in RampBases :
          ramp = [period |-> p, profile |-> f, base |-> b, k |-> 0]

RampFeed ==
    /\ ~RampDone
    /\ OnSample(ramp.base + RampOffset(ramp), RampGyro(ramp),
                RampBoomNorm(ramp), RampRoll(ramp))
    /\ ramp' = [ramp EXCEPT !.k = @ + 1]
    /\ UNCHANGED <<ringVars, collVars, sensVars>>

NextRamp == RampFeed

SpecRamp == InitRamp /\ [][NextRamp]_vars

\* ---- further specifications ----

(***************************************************************************)
(* Every variable of the collector, the ring and the detector at its       *)
(* constructed value: the rest of the program while one call is checked.   *)
(***************************************************************************)
IdleProgram ==
    /\ NewCollector([QueueSize |-> 1, DecoderWorkers |-> 1, BufferSize |-> 1])
    /\ brokerPGNs = {}
    /\ brokerPayloads = {}
    /\ NewRingBuffer(1)
    /\ NewEventDetector(SmallConfig)
    /\ ramp = NoRamp

\* A call returns: only call and ret change.
Returns(value) ==
    /\ call # NoCall
    /\ ret = NoCall
    /\ ret' = [value |-> value]
    /\ UNCHANGED <<call, ringVars, collVars, detVars, sensorVars>>

(***************************************************************************)
(* SpecPGN: one call of PGNFromParts on uint8 arguments around the PDU1 /  *)
(* PDU2 boundary (pf = 240).                                               *)
(***************************************************************************)
PartsDP == {0, 1, 2, 3, 255}
PartsPF == {0, 1, 239, 240, 254, 255}
PartsPS == {0, 18, 26, 255}

InitPGN ==
    /\ IdleProgram
    /\ IdleSensor
    /\ \E dp \in PartsDP, pf \in PartsPF, ps \in PartsPS :
          call = [fn |-> "PGNFromParts", dp |-> dp, pf |-> pf, ps |-> ps]
    /\ ret = NoCall

CallPGNFromParts == Returns(PGNFromParts(call.dp, call.pf, call.ps))

NextPGN == CallPGNFromParts

SpecPGN == InitPGN /\ [][NextPGN]_vars


(***************************************************************************)
(* SpecReaders: one call of one byte reader on a payload of 0 to           *)
(* MaxPayloadLen bytes, at every offset from one before the payload (or    *)
(* from L - w + 1 when that is lower) up to L.  A payload holds one byte   *)
(* value up to a switch position and another from there on.                *)
(***************************************************************************)
TwoValued(len, a, b, k) == [i \in 1..len |-> IF i <= k THEN a ELSE b]

ReaderPayloads ==
    {TwoValued(len, a, b, k) :
        len \in 0..MaxPayloadLen, a \in {1, 128, 255}, b \in {0, 127, 255},
        k \in 0..MaxPayloadLen}

InitReaders ==
    /\ IdleProgram
    /\ IdleSensor
    /\ \E r \in Readers, payload \in ReaderPayloads :
          \E offset \in Min(-1, Len(payload) - ReaderWidth(r) + 1)..Len(payload) :
              call = [fn |-> r, data |-> payload, offset |-> offset]
    /\ ret = NoCall

CallReader ==
    /\ call # NoCall
    /\ ret = NoCall
    /\ ret' = IF ReadPanics(call.data, call.offset, ReaderWidth(call.fn))
              THEN Panicked
              ELSE [value |-> Read(call.fn, call.data, call.offset)]
    /\ UNCHANGED <<call, ringVars, collVars, detVars, sensorVars>>

NextReaders == CallReader

SpecReaders == InitReaders /\ [][NextReaders]_vars


(***************************************************************************)
(* SpecDecode: one call of Decoder.Decode on a payload built field by      *)
(* field.  FieldLayout(pgn) lists, for every physical field a decoder can  *)
(* emit, the result keys, the raw values read for it (reader, offset) and  *)
(* the payload lengths (from .. upto) at which the decoder reads it.       *)
(***************************************************************************)
LongestPayload == 43

Entry(keys, raws, from) ==
    [keys |-> keys, raws |-> raws, from |-> from, upto |-> LongestPayload]

FieldLayout(pgn) ==
    CASE pgn = 127257 ->
            {Entry({"yaw_rad", "yaw_deg"}, {<<"i16le", 1>>}, 7),
             Entry({"pitch_rad", "pitch_deg"}, {<<"i16le", 3>>}, 7),
             Entry({"roll_rad", "roll_deg", "heel_angle"}, {<<"i16le", 5>>}, 7)}
      [] pgn = 127251 ->
            {[keys |-> {"rate_of_turn_rad_s", "rate_of_turn_deg_s"},
              raws |-> {<<"i16le", 1>>}, from |-> 3, upto |-> 7],
             Entry({"rate_of_turn_rad_s", "rate_of_turn_deg_s"},
                   {<<"i32le", 1>>}, 8)}
      [] pgn = 130306 ->
            {Entry({"wind_speed_ms", "wind_speed_kts"}, {<<"u16le", 1>>}, 6),
             Entry({"wind_angle_rad", "wind_angle_deg"}, {<<"u16le", 3>>}, 6)}
      [] pgn = 127250 ->
            {Entry({"heading_rad", "heading_deg"}, {<<"u16le", 1>>}, 8),
             Entry({"deviation_rad", "deviation_deg"}, {<<"i16le", 3>>}, 8),
             Entry({"variation_rad", "variation_deg"}, {<<"i16le", 5>>}, 8)}
      [] pgn = 129026 ->
            {Entry({"cog_rad", "cog_deg"}, {<<"u16le", 1>>}, 8),
             Entry({"sog_ms", "sog_kts"}, {<<"u16le", 3>>}, 8)}
      [] pgn = 129025 ->
            {Entry({"latitude"}, {<<"u32le", 0>>}, 8),
             Entry({"longitude"}, {<<"u32le", 4>>}, 8)}
      [] pgn = 129029 ->
            {Entry({"fix_time_utc"}, {<<"u16le", 1>>, <<"u32le", 3>>}, 43),
             Entry({"latitude"}, {<<"i64le", 7>>}, 43),
             Entry({"longitude"}, {<<"i64le", 15>>}, 43),
             Entry({"altitude_m"}, {<<"i64le", 23>>}, 43),
             Entry({"hdop"}, {<<"i16le", 34>>}, 43),
             Entry({"pdop"}, {<<"i16le", 36>>}, 43),
             Entry({"geoidal_separation_m"}, {<<"i32le", 38>>}, 43)}
      [] pgn = 128267 -> {Entry({"depth_m"}, {<<"u32le", 1>>}, 5)}
      [] pgn = 128259 ->
            {Entry({"water_speed_ms", "water_speed_kts"}, {<<"u16le", 1>>}, 7),
             Entry({"ground_speed_ms", "ground_speed_kts"},
                   {<<"u16le", 3>>}, 7)}
      [] pgn = 128275 ->
            {Entry({"log_distance_m"}, {<<"u32le", 0>>}, 8),
             Entry({"trip_distance_m"}, {<<"u32le", 4>>}, 8)}
      [] pgn = 127245 ->
            {Entry({"rudder_angle_order_rad", "rudder_angle_order_deg"},
                   {<<"i16le", 2>>}, 6),
             Entry({"rudder_position_rad", "rudder_position_deg"},
                   {<<"i16le", 4>>}, 6)}
      [] pgn = 127237 ->
            {Entry({"commanded_rudder_angle_rad"}, {<<"i16le", 3>>}, 8),
             Entry({"heading_to_steer_rad"}, {<<"u16le", 5>>}, 8),
             Entry({"track_rad"}, {<<"u16le", 7>>}, 8)}
      [] pgn = 129284 ->
            {Entry({"distance_to_waypoint_m"}, {<<"u32le", 1>>}, 8),
             Entry({"eta_utc"}, {<<"u32le", 6>>, <<"u16le", 10>>}, 10)}
      [] pgn = 129540 ->
            {Entry({"sv_1_prn"}, {<<"u8", 3>>}, 12),
             Entry({"sv_1_elevation_rad"}, {<<"i16le", 4>>}, 12),
             Entry({"sv_1_azimuth_rad"}, {<<"u16le", 6>>}, 12),
             Entry({"sv_1_snr_dbhz"}, {<<"i16le", 8>>}, 12),
             Entry({"sv_1_range_residual_m"}, {<<"u32le", 10>>}, 12)}
      [] pgn = 126992 ->
            {Entry({"date"}, {<<"u16le", 2>>}, 8),
             Entry({"time_of_day"}, {<<"u32le", 4>>}, 8)}
      [] pgn = 127508 ->
            {Entry({"battery_voltage_v"}, {<<"u16le", 1>>}, 8),
             Entry({"battery_current_a"}, {<<"i16le", 3>>}, 8),
             Entry({"battery_temperature_c"}, {<<"u16le", 5>>}, 8)}
      [] pgn = 127489 ->
            {Entry({"oil_pressure_pa"}, {<<"u16le", 1>>}, 8),
             Entry({"oil_temperature_c"}, {<<"u16le", 3>>}, 8),
             Entry({"engine_temperature_c"}, {<<"u16le", 5>>}, 8),
             Entry({"alternator_voltage_v"}, {<<"u16le", 7>>}, 9)}
      [] pgn = 130310 ->
            {Entry({"air_temperature_c"}, {<<"u16le", 4>>}, 12),
             Entry({"water_temperature_c"}, {<<"u16le", 6>>}, 12),
             Entry({"relative_humidity_pct"}, {<<"u16le", 8>>}, 12),
             Entry({"atmospheric_pressure_hpa"}, {<<"u16le", 10>>}, 12)}
      [] pgn = 130312 ->
            {Entry({"actual_temperature_c"}, {<<"u16le", 3>>}, 6),
             Entry({"set_temperature_c"}, {<<"u16le", 5>>}, 7)}
      [] pgn = 130313 ->
            {Entry({"actual_humidity_pct"}, {<<"u16le", 3>>}, 6)}

AllRaws(pgn) == UNION {e.raws : e \in FieldLayout(pgn)}

\* The payload length up to which the decoder of pgn reads.
FullLength(pgn) ==
    LET ends == {raw[2] + ReaderWidth(raw[1]) : raw \in AllRaws(pgn)}
    IN  CHOOSE n \in ends : \A m \in ends : m <= n

SignedReaders == {"i8", "i16le", "i32le", "i64le"}

\* The bytes of a raw value, lowest first: the sentinel of the reader, the
\* value 0x2710, or all ones.
RawBytes(reader, kind) ==
    [j \in 1..ReaderWidth(reader) |->
        CASE kind = "sentinel" ->
                IF j = ReaderWidth(reader) /\ reader \in SignedReaders
                THEN 127 ELSE 255
          [] kind = "valid" -> IF j = 1 THEN 16 ELSE IF j = 2 THEN 39 ELSE 0
          [] kind = "ones" -> 255]

\* The payload of len bytes for pgn in which the raw values in valid hold
\* fill ("valid" or "ones"), every other raw value its sentinel and every
\* other byte 0xFF.
BuildPayload(pgn, len, valid, fill) ==
    LET laid == UNION {e.raws : e \in {x \in FieldLayout(pgn) :
                                          x.from <= len /\ len <= x.upto}}
        Covering(p) == {raw \in laid :
                           raw[2] <= p /\ p < raw[2] + ReaderWidth(raw[1])}
    IN  [i \in 1..len |->
            IF Covering(i - 1) = {} THEN 255
            ELSE LET raw == CHOOSE x \in Covering(i - 1) : TRUE
                 IN  RawBytes(raw[1], IF raw \in valid THEN fill
                                      ELSE "sentinel")[i - raw[2]]]

InitDecode ==
    /\ IdleProgram
    /\ IdleSensor
    /\ \E pgn \in RegisteredPGNs :
          \E len \in 0..FullLength(pgn), valid \in SUBSET AllRaws(pgn),
             fill \in {"valid", "ones"} :
              call = [fn |-> "Decode", pgn |-> pgn, valid |-> valid,
                      fill |-> fill,
                      data |-> BuildPayload(pgn, len, valid, fill)]
    /\ ret = NoCall

CallDecode == Returns(DecoderDecode(call.pgn, call.data))

NextDecode == CallDecode

SpecDecode == InitDecode /\ [][NextDecode]_vars


(***************************************************************************)
(* SpecDecodeAny: one call of Decoder.Decode for a registered PGN on a     *)
(* payload of any of the lengths 0..MaxPayloadLen and LongLengths.         *)
(***************************************************************************)
LongLengths == {12, 27, 43, 44}

AnyPayloads ==
    {TwoValued(len, a, b, k) :
        len \in (0..MaxPayloadLen) \cup LongLengths,
        a \in {1, 128, 255}, b \in {0, 127, 255}, k \in 0..MaxPayloadLen}

InitDecodeAny ==
    /\ IdleProgram
    /\ IdleSensor
    /\ \E pgn \in RegisteredPGNs, payload \in AnyPayloads :
          call = [fn |-> "Decode", pgn |-> pgn, data |-> payload]
    /\ ret = NoCall

NextDecodeAny == CallDecode

SpecDecodeAny == InitDecodeAny /\ [][NextDecodeAny]_vars


(***************************************************************************)
(* SpecScore: one call of tackQualityScore.  dt in 0.1 s, gyPeak in deg/s, *)
(* rollDrop in 1/3 deg, overshoot in 0.01 (as a fraction n/d).             *)
(***************************************************************************)
ScoreDT == {0, 3, 6, 16, 30, 100}
ScoreGyPeak == {0, 30, 55, 110, 200}
ScoreRollDrop == {0, 30, 75, 120}
ScoreOvershoot == {[n |-> 0, d |-> 1], [n |-> 10, d |-> 1],
                   [n |-> 25, d |-> 1], [n |-> 100, d |-> 3]}

InitScore ==
    /\ IdleProgram
    /\ IdleSensor
    /\ \E dt \in ScoreDT, gyPeak \in ScoreGyPeak, rollDrop \in ScoreRollDrop,
          overshoot \in ScoreOvershoot :
          call = [fn |-> "tackQualityScore", dt |-> dt, gyPeak |-> gyPeak,
                  rollDrop |-> rollDrop, overshoot |-> overshoot]
    /\ ret = NoCall

CallTackQualityScore ==
    Returns(tackQualityScore(call.dt, call.gyPeak, call.rollDrop,
                             call.overshoot))

NextScore == CallTackQualityScore

SpecScore == InitScore /\ [][NextScore]_vars


(***************************************************************************)
(* The calibrator on its own: captures, direct replacement, persistence    *)
(* and ComputeBoom in any order.                                           *)
(***************************************************************************)
\* The four captures (c0, stb, port, c1) of a calibration, in degrees: the
\* two worked examples, noisy centres, a boom that never moved and
\* extremes taken on the wrong sides.
Captures == {<<0, 45, -45, 0>>, <<1, 44, -46, -1>>, <<0, 45, -45, 5>>,
             <<0, 0, 0, 0>>, <<1, -45, 45, 0>>}

Answers == {"", "y", "Y", "n"}

Calibrations ==
    {[Mid |-> Float(0), SpanPos |-> Float(45), SpanNeg |-> Float(45)],
     [Mid |-> Float(0), SpanPos |-> Float(0), SpanNeg |-> Float(0)],
     [Mid |-> Float(0), SpanPos |-> Float(-45), SpanNeg |-> Float(45)],
     [Mid |-> Rat(-7, 10), SpanPos |-> Rat(447, 10), SpanNeg |-> Rat(453, 10)]}

CalFiles ==
    {[kind |-> "missing"], [kind |-> "unreadable"], [kind |-> "invalid"]}
        \cup {[kind |-> "json", cal |-> c] : c \in Calibrations}

AxisValues == {Float(-60), Float(-1), Float(0), Rat(45, 2), Float(60)}

InitCalibrator ==
    /\ IdleProgram
    /\ IdleCalls
    /\ calibration = Nil
    /\ bq = Nil
    /\ iterations = 0
    /\ filter = Nil
    /\ \E f \in CalFiles : files = [cal |-> f, bayes |-> [kind |-> "missing"]]

CallPerformCalibration ==
    /\ \E ready \in BOOLEAN, c \in Captures, ans \in Answers :
            PerformCalibration(ready, Float(c[1]), Float(c[2]), Float(c[3]),
                               Float(c[4]), ans)
    /\ UNCHANGED <<ringVars, collVars, detVars>>

CallSetCalibration ==
    /\ \E cal \in Calibrations \cup {Nil} :
          /\ call' = [fn |-> "SetCalibration", cal |-> cal]
          /\ SetCalibration(cal)
    /\ ret' = [value |-> NoError]
    /\ UNCHANGED <<bq, files, iterations, filter, ringVars, collVars, detVars>>

CallComputeBoom ==
    /\ \E v \in AxisValues :
          /\ call' = [fn |-> "ComputeBoom", axisValue |-> v]
          /\ ret' = [value |-> ComputeBoom(v)]
    /\ UNCHANGED <<sensorVars, ringVars, collVars, detVars>>

CallSaveToFile == SaveToFile /\ UNCHANGED <<ringVars, collVars, detVars>>

CallLoadFromFile == LoadFromFile /\ UNCHANGED <<ringVars, collVars, detVars>>

NextCalibrator ==
    \/ CallPerformCalibration
    \/ CallSetCalibration
    \/ CallComputeBoom
    \/ CallSaveToFile
    \/ CallLoadFromFile

SpecCalibrator == InitCalibrator /\ [][NextCalibrator]_vars


(***************************************************************************)
(* The Bayesian model on its own: feedback, prediction and persistence in  *)
(* any order, until a call panics.                                         *)
(***************************************************************************)
Dims == {1, 2}

Sigmas == {Float(1), Float(2)}

\* Feature vectors of the lengths 0 to 3 around the dimensions used.
Features == {<<>>, <<Float(1)>>, <<Float(0)>>, <<Float(1), Float(1)>>,
             <<Float(1), Float(0)>>, <<Float(1), Float(1), Float(1)>>}

Iters == {1, 2}

\* boom_bayes_posterior.json: absent, not JSON, or an object whose "mu"
\* and "var" are as SaveState wrote them for one or two dimensions, are
\* empty, hold a zero or negative variance, or hold something that is not
\* a number.
BayesFiles ==
    {[kind |-> "missing"], [kind |-> "invalid"],
     [kind |-> "json", mu |-> Array(<<Float(0)>>),
      var |-> Array(<<Rat(1, 2)>>), d |-> 1],
     [kind |-> "json", mu |-> Array(<<Float(0), Float(0)>>),
      var |-> Array(<<Float(1), Float(1)>>), d |-> 2],
     [kind |-> "json", mu |-> Nil, var |-> Array(<<Float(0)>>), d |-> 1],
     [kind |-> "json", mu |-> Array(<<Float(0)>>),
      var |-> Array(<<Float(-1)>>), d |-> 1],
     [kind |-> "json", mu |-> Array(<<>>), var |-> Array(<<>>), d |-> 0],
     [kind |-> "json", mu |-> Array(<<NotFloat>>),
      var |-> Array(<<NotFloat>>), d |-> 1]}

InitBayes ==
    /\ IdleProgram
    /\ IdleCalls
    /\ calibration = Nil
    /\ iterations = 0
    /\ filter = Nil
    /\ \E d \in Dims, sigma0 \in Sigmas : bq = NewBayesianQA(d, sigma0)
    /\ \E f \in BayesFiles : files = [cal |-> [kind |-> "missing"], bayes |-> f]

\* The process is gone once a call has panicked.
Running == ret # Panicked

CallUpdate ==
    /\ Running
    /\ \E x \in Features, y \in {0, 1}, iters \in Iters :
          LET r == Update(bq, x, Float(y), iters)
          IN  /\ iterations + iters <= MaxIterations
              /\ call' = [fn |-> "Update", x |-> x, y |-> y, iters |-> iters,
                          before |-> bq]
              /\ bq' = r.bq
              /\ ret' = IF r.panic THEN Panicked ELSE [value |-> NoError]
              /\ iterations' = iterations + iters
    /\ UNCHANGED <<calibration, files, filter, ringVars, collVars, detVars>>

CallPredictProba ==
    /\ Running
    /\ \E x \in Features :
          LET r == PredictProba(bq, x)
          IN  /\ call' = [fn |-> "PredictProba", x |-> x]
              /\ ret' = IF r = Panicked THEN Panicked ELSE [value |-> r]
    /\ UNCHANGED <<sensorVars, ringVars, collVars, detVars>>

CallLoadState ==
    /\ Running
    /\ LoadState
    /\ UNCHANGED <<ringVars, collVars, detVars>>

CallSaveState ==
    /\ Running
    /\ SaveState
    /\ UNCHANGED <<ringVars, collVars, detVars>>

NextBayes ==
    \/ CallUpdate
    \/ CallPredictProba
    \/ CallLoadState
    \/ CallSaveState

SpecBayes == InitBayes /\ [][NextBayes]_vars


(***************************************************************************)
(* Sensor.Start on a new sensor, whatever the two files hold, followed by  *)
(* ComputeBoom and PredictProba as ProcessIMU and EvaluateEvent call them. *)
(***************************************************************************)
InitStart ==
    /\ IdleProgram
    /\ IdleCalls
    /\ calibration = Nil
    /\ iterations = 0
    /\ filter = Nil
    /\ \E d \in Dims, sigma0 \in Sigmas : bq = NewBayesianQA(d, sigma0)
    /\ \E c \in CalFiles, b \in BayesFiles : files = [cal |-> c, bayes |-> b]

CallStart ==
    /\ call = NoCall
    /\ Start
    /\ UNCHANGED <<ringVars, collVars, detVars>>

Started == call # NoCall /\ ret # Panicked

StartedComputeBoom == Started /\ CallComputeBoom

StartedPredictProba == Started /\ CallPredictProba

NextStart ==
    \/ CallStart
    \/ StartedComputeBoom
    \/ StartedPredictProba

SpecStart == InitStart /\ [][NextStart]_vars


(***************************************************************************)
(* SpecSamples: a detector whose buffer holds MaxSamples samples receives  *)
(* one sample more than that, slow turns (gyro 16 deg/s) with the boom and *)
(* the roll on either side and samples at rest, at two times 0.3 s apart.  *)
(* call.received is the history of the samples passed to OnSample.         *)
(***************************************************************************)
SlowTurnTimes == {0, 3}

SlowTurnShapes ==
    { [gyro |-> 16, boomNorm |-> 60,    roll |-> 45],
      [gyro |-> 16, boomNorm |-> -60,   roll |-> 0],
      [gyro |-> 0,  boomNorm |-> 0,     roll |-> 0] }

InitSamples ==
    /\ NewCollector([QueueSize |-> 1, DecoderWorkers |-> 1, BufferSize |-> 1])
    /\ brokerPGNs = {}
    /\ brokerPayloads = {}
    /\ NewRingBuffer(1)
    /\ NewEventDetector([DefaultConfig EXCEPT !.MaxBufferSize = MaxSamples])
    /\ call = [fn |-> "OnSample", received |-> <<>>]
    /\ ret = NoCall
    /\ IdleSensor
    /\ ramp = NoRamp

FeedSample ==
    /\ nSamples <= MaxSamples
    /\ lastOutcome # "panic"
    /\ \E t \in SlowTurnTimes, sh \in SlowTurnShapes :
          /\ OnSample(t, sh.gyro, sh.boomNorm, sh.roll)
          /\ call' = [call EXCEPT !.received =
                        Append(@, [t |-> t, gyro |-> sh.gyro,
                                   boomNorm |-> sh.boomNorm, roll |-> sh.roll])]
    /\ UNCHANGED <<ret, sensorVars, ringVars, collVars, ramp>>

NextSamples == FeedSample

SpecSamples == InitSamples /\ [][NextSamples]_vars


(***************************************************************************)
(* SpecHeader: one call of the header extraction of parseRawFrame on a     *)
(* payload whose keys are each absent, a number or a string.  id 803 is    *)
(* 0x323, whose low byte is 35; now is 1.                                  *)
(***************************************************************************)
HeaderPayloads ==
    [ts : {Absent, Text, Number(7)},
     timestamp : {Absent, Text, Number(9)},
     pgn : {Absent, Text, Number(0), Number(127257)},
     dp : {Absent, Number(1)},
     pf : {Absent, Number(239), Number(240)},
     ps : {Absent, Number(18)},
     src : {Absent, Text, Number(0), Number(36)},
     id : {Absent, Text, Number(803)}]

InitHeader ==
    /\ IdleProgram
    /\ IdleSensor
    /\ \E payload \in HeaderPayloads :
          call = [fn |-> "parseRawFrame", now |-> 1, payload |-> payload]
    /\ ret = NoCall

CallParseRawFrame == Returns(parseFrameHeader(call.now, call.payload))

NextHeader == CallParseRawFrame

SpecHeader == InitHeader /\ [][NextHeader]_vars


(***************************************************************************)
(* SpecMapper: the ring under pushes of COG/SOG and water-speed messages   *)
(* whose speed field is missing, zero or positive, read by the mapper      *)
(* after every push.                                                       *)
(***************************************************************************)
SpeedValues == {Absent, Number(0), Number(5), Number(6)}

MapperMsgs ==
    {[PGN |-> PGN_SOG, Timestamp |-> 1,
      Fields |-> [sog_kts |-> v, water_speed_kts |-> Absent]] : v \in SpeedValues}
    \cup
    {[PGN |-> PGN_WaterSpeed, Timestamp |-> 1,
      Fields |-> [sog_kts |-> Absent, water_speed_kts |-> v]] : v \in SpeedValues}

MapperPush ==
    /\ Len(pushed) < MaxPushes
    /\ \E msg \in MapperMsgs : Push(msg)
    /\ UNCHANGED collVars
    /\ UNCHANGED detVars
    /\ UNCHANGED sensVars

NextMapper == MapperPush

SpecMapper == InitRing /\ [][NextMapper]_vars


(***************************************************************************)
(* SpecFilter: a complementary filter of tau = 0.7 s (DefaultConfig) under *)
(* at most MaxReadings calls of Update, GetState and Reset.  Readings come *)
(* at 0, 0.1 or 0.4 s in any order (gaps below, at and above the cap, and  *)
(* steps back in time), level, heeled 45 degrees or pitched 45 degrees,    *)
(* with or without rotation.                                               *)
(***************************************************************************)
EulerTau == Rat(7, 10)

FilterReadings ==
    {[t |-> t, AccelX |-> a[1], AccelY |-> a[2], AccelZ |-> a[3],
      GyroY |-> g, GyroZ |-> 0] :
        t \in {0, 1, 4},
        a \in {<<0, 0, 1>>, <<1, 0, 1>>, <<0, -1, 1>>},
        g \in {0, 10}}

InitFilter ==
    /\ IdleProgram
    /\ calibration = Nil
    /\ bq = Nil
    /\ files = [cal |-> [kind |-> "missing"], bayes |-> [kind |-> "missing"]]
    /\ iterations = 0
    /\ filter = NewComplementaryFilter(EulerTau)
    /\ call = [fn |-> "NewComplementaryFilter", seq |-> 0]
    /\ ret = NoCall

FilterFrame == UNCHANGED <<calibration, bq, files, iterations, ringVars,
                           collVars, detVars>>

CallFilterUpdate ==
    /\ call.seq < MaxReadings
    /\ \E reading \in FilterReadings :
          /\ call' = [fn |-> "Update", seq |-> call.seq + 1,
                      reading |-> reading, before |-> filter]
          /\ filter' = FilterUpdate(filter, reading)
          /\ ret' = [value |-> [roll |-> filter'.roll, pitch |-> filter'.pitch]]
    /\ FilterFrame

CallGetState ==
    /\ call.seq < MaxReadings
    /\ call' = [fn |-> "GetState", seq |-> call.seq + 1]
    /\ ret' = [value |-> GetState(filter)]
    /\ UNCHANGED filter
    /\ FilterFrame

CallReset ==
    /\ call.seq < MaxReadings
    /\ call' = [fn |-> "Reset", seq |-> call.seq + 1]
    /\ filter' = Reset(filter)
    /\ ret' = NoCall
    /\ FilterFrame

NextFilter ==
    \/ CallFilterUpdate
    \/ CallGetState
    \/ CallReset

SpecFilter == InitFilter /\ [][NextFilter]_vars


(***************************************************************************)
(* SpecIMU: a sensor that starts uncalibrated and receives at most         *)
(* MaxReadings calls, each a ProcessIMU of a reading (level or heeled 45   *)
(* degrees, at 0 or 0.4 s) or the commit of a calibration: a usable one,   *)
(* or one with zero spans around 0 or around 45 degrees.                   *)
(***************************************************************************)
IMUReadings == {r \in FilterReadings : r.t \in {0, 4} /\ r.AccelY = 0}

IMUCalibrations ==
    {[Mid |-> Float(0), SpanPos |-> Float(45), SpanNeg |-> Float(45)],
     [Mid |-> Float(0), SpanPos |-> Float(0), SpanNeg |-> Float(0)],
     [Mid |-> Float(45), SpanPos |-> Float(0), SpanNeg |-> Float(0)]}

InitIMU ==
    /\ NewCollector([QueueSize |-> 1, DecoderWorkers |-> 1, BufferSize |-> 1])
    /\ brokerPGNs = {}
    /\ brokerPayloads = {}
    /\ NewRingBuffer(1)
    /\ NewEventDetector(DefaultConfig)
    /\ ramp = NoRamp
    /\ calibration = Nil
    /\ bq = Nil
    /\ files = [cal |-> [kind |-> "missing"], bayes |-> [kind |-> "missing"]]
    /\ iterations = 0
    /\ filter = NewComplementaryFilter(EulerTau)
    /\ call = [fn |-> "NewSensor", seq |-> 0]
    /\ ret = NoCall

CallProcessIMU ==
    /\ call.seq < MaxReadings
    /\ lastOutcome # "panic"
    /\ \E reading \in IMUReadings :
          /\ call' = [fn |-> "ProcessIMU", seq |-> call.seq + 1,
                      reading |-> reading, calibration |-> calibration]
          /\ ProcessIMU(reading)
    /\ UNCHANGED <<calibration, bq, files, iterations, ringVars, collVars, ramp>>

CommitCalibration ==
    /\ call.seq < MaxReadings
    /\ \E cal \in IMUCalibrations :
          /\ call' = [fn |-> "SetCalibration", seq |-> call.seq + 1, cal |-> cal]
          /\ SetCalibration(cal)
    /\ ret' = NoCall
    /\ UNCHANGED <<bq, files, iterations, filter, ringVars, collVars, detVars>>

NextIMU ==
    \/ CallProcessIMU
    \/ CommitCalibration

SpecIMU == InitIMU /\ [][NextIMU]_vars

\* ---- end of specifications ----


(***************************************************************************)
\* Indices of the Push calls that carried PGN p, and the largest of a set.
PushesOf(p) == {i \in 1..Len(pushed) : pushed[i].PGN = p}
MaxOf(S) == CHOOSE x \in S : \A y \in S : y <= x

\* C1: after N Push calls on a buffer of capacity C >= 1, Size() = min(N, C);
\* size never exceeds C and no step decreases it.
C1_SizeIsMinPushesCapacity ==
    /\ [](Size = Min(Len(pushed), capacity) /\ Size <= capacity)
    /\ [][size' >= size]_vars

\* C1 witness: more pushes than slots, the size has saturated at C >= 2.
C1_Witness == capacity >= 2 /\ Len(pushed) > capacity /\ Size = capacity

\* C2: GetLatestByPGN(p) is the message most recently pushed with PGN p (by
\* push order, not by timestamp), nil exactly when PGN p was never pushed, and
\* the index has exactly one entry per PGN that was pushed.
C2_LatestIsLastPushed ==
    /\ \A p \in RingPGNs :
          IF PushesOf(p) = {}
          THEN LatestMessage(p) = Nil
          ELSE LatestMessage(p) = pushed[MaxOf(PushesOf(p))]
    /\ DOMAIN latestByPGN = {pushed[i].PGN : i \in 1..Len(pushed)}

\* C2 witness: a PGN pushed twice, the later push carrying the older
\* timestamp, is answered with the later push; another PGN is still absent.
C2_Witness ==
    \E p \in RingPGNs, q \in RingPGNs :
        /\ PushesOf(q) = {} /\ LatestMessage(q) = Nil
        /\ \E i \in PushesOf(p), j \in PushesOf(p) :
              /\ i < j /\ j = MaxOf(PushesOf(p))
              /\ pushed[i].Timestamp > pushed[j].Timestamp
              /\ LatestMessage(p) = pushed[j]

\* C3: for n >= 0, GetRecent(n) has exactly min(n, size) elements, newest
\* first: element i (from 1) is the i-th most recently pushed message, also
\* after the buffer has wrapped.
C3_GetRecentNewestFirst ==
    \A n \in 0..(MaxPushes + 1) :
        LET r == GetRecent(n)
        IN  /\ Len(r) = Min(n, size)
            /\ \A i \in 1..Len(r) : r[i] = pushed[Len(pushed) - i + 1]

\* C3 witness (scenario S4): C = 3, pushes A(p=1), B(p=2), C(p=1), D(p=3),
\* A # C; then size = 3 and GetRecent(2) = [D, C].
C3_Witness ==
    /\ capacity = 3 /\ Len(pushed) = 4 /\ size = 3
    /\ pushed[1].PGN = 1 /\ pushed[2].PGN = 2
    /\ pushed[3].PGN = 1 /\ pushed[4].PGN = 3
    /\ pushed[1] # pushed[3]
    /\ GetRecent(2) = <<pushed[4], pushed[3]>>
    /\ LatestMessage(1) = pushed[3]

(***************************************************************************)
(* Properties of the collector pipeline.                                   *)
(***************************************************************************)
DecodersStopped == \A i \in WorkerIds : i \in Workers => decPc[i] = "stopped"
AllWorkersStopped == DecodersStopped /\ stPc = "stopped" /\ repPc = "stopped"

\* C4: backpressure is drop-newest and non-blocking: neither channel ever
\* holds more than QueueSize items; onMessage and a decoder worker at its send
\* can always take their step; and a send attempted on a full channel leaves
\* the queued items unchanged and in order (the new item is discarded).
C4_DropNewestNonBlocking ==
    /\ [](Len(rawFrames) <= QueueSize /\ Len(decodedData) <= QueueSize)
    /\ []((subscribed /\ connected /\ nArrived < MaxFrames) => ENABLED OnMessage)
    /\ [](\A i \in WorkerIds :
            (i \in Workers /\ decPc[i] = "send") => ENABLED DecSend(i))
    /\ [][(nArrived' # nArrived /\ Len(rawFrames) = QueueSize)
            => (rawFrames' = rawFrames /\ accepted' = accepted)]_vars
    /\ [][\A i \in WorkerIds :
            (/\ i \in Workers
             /\ decPc[i] = "send" /\ decPc'[i] # "send"
             /\ Len(decodedData) = QueueSize)
            => decodedData' = decodedData]_vars

\* C4 witness: before any shutdown, onMessage has discarded a frame at a full
\* rawFrames and a decoder worker a message at a full decodedData.
C4_Witness ==
    /\ ~done
    /\ dropped.raw > 0 /\ dropped.dec > 0
    /\ Len(decodedData) = QueueSize

\* C9: once done is closed, every decoder worker, the storage worker and the
\* stats reporter eventually return (checked under FairCollector).
C9_WorkersReturnAfterStop == done ~> AllWorkersStopped

\* C9 witness: all workers have returned although both channels still hold
\* items.
C9_Witness ==
    /\ done /\ AllWorkersStopped
    /\ rawFrames # <<>> /\ decodedData # <<>>

\* C10 (as claimed): once done is closed no worker dequeues from rawFrames
\* and the storage worker dequeues nothing from decodedData.
C10_NoDequeueAfterDone ==
    [][done => (/\ Len(rawFrames') >= Len(rawFrames)
                /\ Len(decodedData') >= Len(decodedData))]_vars

(***************************************************************************)
(* Properties of the event detector.                                       *)
(***************************************************************************)
LastEvent == emitted[Len(emitted)]
LastSampleTime == edBuffer[Len(edBuffer)].t
SampleStep == nSamples' = nSamples + 1
EmitStep == Len(emitted') = Len(emitted) + 1

\* C5: no two emitted events have timestamps closer than RefractoryPeriod,
\* whatever the order of the sample timestamps; a sample whose time is less
\* than RefractoryPeriod after the time of an emitted event emits nothing.
C5_RefractoryBetweenEvents ==
    /\ [](\A i, j \in 1..Len(emitted) :
            i < j => Abs(emitted[j].Timestamp - emitted[i].Timestamp)
                        >= edConfig.RefractoryPeriod)
    /\ [][(SampleStep /\ \E i \in 1..Len(emitted) :
              edBuffer'[Len(edBuffer')].t - emitted[i].Timestamp
                  < edConfig.RefractoryPeriod)
          => emitted' = emitted]_vars

\* Two events exactly one refractory period apart, with a sample of an
\* earlier time received between them and still in the buffer.
C5_Witness ==
    /\ Len(emitted) = 2
    /\ emitted[2].Timestamp - emitted[1].Timestamp = edConfig.RefractoryPeriod
    /\ \E i, j \in 1..Len(edBuffer) : i < j /\ edBuffer[i].t > edBuffer[j].t

\* The type of the first rule that matches, in the order of the claim.
FirstMatch(buf, tNow, cfg) ==
    IF checkCrashGybe(buf, tNow, cfg).match THEN "gybe_crash"
    ELSE IF checkNormalGybe(buf, tNow, cfg).match THEN "gybe_normal"
    ELSE IF checkTack(buf, tNow, cfg).match THEN "tack"
    ELSE IF checkBoomHit(buf, tNow, cfg).match THEN "boom_hit"
    ELSE ""

\* C6: an OnSample call emits at most one event; its type is that of the
\* first matching rule in the order gybe_crash, gybe_normal, tack, boom_hit;
\* no tack is emitted on a sample at which a gybe rule matches.
C6_FirstMatchingRule ==
    [][SampleStep =>
        LET buf  == edBuffer'
            tNow == edBuffer'[Len(edBuffer')].t
            new  == emitted'[Len(emitted')]
        IN  /\ Len(emitted') <= Len(emitted) + 1
            /\ SubSeq(emitted', 1, Len(emitted)) = emitted
            /\ EmitStep => new.Type = FirstMatch(buf, tNow, edConfig)
            /\ (EmitStep /\ new.Type = "tack")
                  => /\ ~checkCrashGybe(buf, tNow, edConfig).match
                     /\ ~checkNormalGybe(buf, tNow, edConfig).match]_vars

\* The last call emitted a gybe_normal on a sample at which the tack rule
\* matches as well.
C6_Witness ==
    /\ lastOutcome = "event"
    /\ LastEvent.Type = "gybe_normal"
    /\ checkTack(edBuffer, LastSampleTime, edConfig).match
    /\ ~checkTack(edBuffer, LastSampleTime, edConfig).panic

\* C7: once the whole 3-second ramp has been fed to a detector with the
\* default configuration, exactly one event has been emitted: a tack with
\* direction stb_to_port, rollDelta >= 12 degrees, duration <= 3.0 s and
\* 0 < score <= 100.
C7_RampEmitsOneTack ==
    RampDone =>
        /\ Len(emitted) = 1
        /\ emitted[1].Type = "tack"
        /\ emitted[1].Direction = "stb_to_port"
        /\ emitted[1].RollDelta >= DefaultConfig.TackMinRollDelta
        /\ emitted[1].Duration <= DefaultConfig.TackDTMax
        /\ emitted[1].Score > 0
        /\ emitted[1].Score <= 1000

Delivered(l, e) == Cardinality({k \in 1..Len(deliveries) : deliveries[k] = <<l, e>>})
Outstanding(l, e) == IF <<l, e>> \in pending THEN 1 ELSE 0

\* C8: every emitted event is delivered exactly once, by a goroutine of its
\* own, to each listener registered when it was emitted and to no other; a
\* panicking listener leaves the other deliveries runnable, does not reach
\* the caller of OnSample and leaves the detector able to take samples.
C8_ListenersIsolated ==
    /\ [](\A e \in 1..Len(emitted), l \in 1..Len(listeners) :
            Delivered(l, e) + Outstanding(l, e)
                = (IF l <= registeredAt[e] THEN 1 ELSE 0))
    /\ [](~procCrashed)
    /\ [](lastOutcome # "panic")
    /\ [](\A task \in pending : ENABLED ListenerRun(task))
    /\ [](nSamples < MaxSamples => ENABLED LsnSample)
    /\ [][(deliveries' # deliveries)
            => UNCHANGED <<edBuffer, lastEventTime, listeners, emitted,
                           nSamples, lastOutcome>>]_vars

\* A panicking listener and a returning one both received the first event,
\* and the second event, emitted afterwards, reached both as well.
C8_Witness ==
    /\ Len(emitted) = 2
    /\ listeners = <<"panic", "ok">>
    /\ registeredAt = <<2, 2>>
    /\ pending = {}
    /\ \A e \in 1..2, l \in 1..2 : Delivered(l, e) = 1
    /\ deliveries[1] = <<1, 1>>

(***************************************************************************)
(* Further properties of the collector pipeline.                           *)
(***************************************************************************)
\* C11: the ring buffer has one writer: every Push is made by the storage
\* worker in the step in which it receives the message from decodedData, the
\* pushed message is the one received, and the worker finishes that message
\* (CSV write) before it can receive and push the next.
C11_SingleWriterInReceiveOrder ==
    /\ [][(pushed' # pushed) =>
            /\ stPc = "select" /\ stPc' = "csv"
            /\ decodedData # <<>>
            /\ pushed' = Append(pushed, Head(decodedData))
            /\ decodedData' = Tail(decodedData)
            /\ stMsg' = Head(decodedData)]_vars
    /\ [][(Len(decodedData') < Len(decodedData)) =>
            pushed' = Append(pushed, Head(decodedData))]_vars
    /\ [](stPc = "csv" => (pushed # <<>> /\ stMsg = pushed[Len(pushed)]))

\* Two messages were pushed while a third waited behind them in decodedData.
C11_Witness ==
    /\ Len(pushed) = 2
    /\ pushed[1].Timestamp # pushed[2].Timestamp
    /\ stPc = "csv"
    /\ decodedData # <<>>

Drained ==
    /\ rawFrames = <<>> /\ decodedData = <<>>
    /\ \A i \in Workers : decPc[i] \in {"select", "stopped"}
    /\ stPc \in {"select", "stopped"}

LastStoredOf(p) ==
    LET idx == {k \in 1..Len(pushed) : pushed[k].PGN = p}
    IN  IF idx = {} THEN Nil
        ELSE pushed[CHOOSE k \in idx :
                      \A j \in idx : pushed[j].Timestamp <= pushed[k].Timestamp]

\* C12: with one decoder worker the pushed messages are a subsequence of the
\* accepted frames in arrival order (frame timestamps are arrival numbers),
\* and GetLatestByPGN(p) is the stored frame of PGN p that arrived last.
C12_SingleWorkerKeepsArrivalOrder ==
    /\ \A i, j \in 1..Len(pushed) :
          i < j => pushed[i].Timestamp < pushed[j].Timestamp
    /\ \A i \in 1..Len(pushed) :
          \E k \in 1..Len(accepted) : accepted[k] = pushed[i].Timestamp
    /\ \A p \in brokerPGNs : LatestMessage(p) = LastStoredOf(p)

\* The queues have drained after a frame was dropped at rawFrames, and
\* frames of both PGNs are stored.
C12_Witness ==
    /\ DecoderWorkers = 1
    /\ Drained
    /\ dropped.raw > 0
    /\ Len(pushed) >= 3
    /\ \A p \in brokerPGNs : LatestMessage(p) # Nil

\* C13: with two decoder workers GetLatestByPGN(p) is in every state the
\* message of PGN p stored most recently, each accepted frame is stored at
\* most once, and (witness) a later-accepted frame can be stored first, so
\* that the index then holds the frame with the earlier timestamp.
C13_LatestIsMostRecentlyStored ==
    /\ \A p \in brokerPGNs :
          LatestMessage(p) =
              (IF PushesOf(p) = {} THEN Nil ELSE pushed[MaxOf(PushesOf(p))])
    /\ \A i, j \in 1..Len(pushed) :
          i # j => pushed[i].Timestamp # pushed[j].Timestamp
    /\ \A i \in 1..Len(pushed) :
          \E k \in 1..Len(accepted) : accepted[k] = pushed[i].Timestamp

\* Frames f1, f2 of one PGN were accepted in this order and pushed as f2, f1;
\* the index returns f1 although f2 has the later timestamp.
C13_Witness ==
    /\ DecoderWorkers >= 2
    /\ \E i, j \in 1..Len(pushed) :
          /\ i < j /\ j = Len(pushed)
          /\ pushed[i].PGN = pushed[j].PGN
          /\ pushed[i].Timestamp > pushed[j].Timestamp
          /\ LatestMessage(pushed[j].PGN) = pushed[j]

StartReturnedNil == mainPc \notin {"new", "spawn", "startFailed"}
NoWorkerSpawned ==
    /\ \A i \in Workers : decPc[i] = "idle"
    /\ stPc = "idle" /\ repPc = "idle"

\* C14: when the connect times out or fails Start() returns an error and no
\* decoder worker, storage worker or stats reporter exists, then or later;
\* workers exist only after a successful connect.
C14_NoWorkersWithoutConnect ==
    /\ [](mainPc = "startFailed" => (NoWorkerSpawned /\ ~connected))
    /\ [](~NoWorkerSpawned => StartReturnedNil)
    /\ [][mainPc = "startFailed" => mainPc' = "startFailed"]_vars
    /\ [][(NoWorkerSpawned /\ ~NoWorkerSpawned') =>
            (mainPc = "spawn" /\ connected)]_vars

C14_Witness == mainPc = "startFailed" /\ NoWorkerSpawned

\* C15 (as claimed): when the subscription times out or fails, Start() does
\* not report a successful start.
C15_SubscribeFailureFailsStart == subFailed => ~StartReturnedNil

\* C16: a frame whose PGN has no handler is counted as processed and failed,
\* not as succeeded; its message, with an empty field map, name "Unknown"
\* and class "nmea_general", is sent on to storage like any other, pushed
\* and made the latest-by-PGN entry.
C16_DecodeMissCountedAndStored ==
    /\ [][(Len(rawFrames') < Len(rawFrames) /\ Head(rawFrames).PGN \notin Handlers)
            => /\ stats'.MessagesProcessed = stats.MessagesProcessed + 1
               /\ stats'.DecodeFailures = stats.DecodeFailures + 1
               /\ stats'.DecodeSuccesses = stats.DecodeSuccesses
               /\ decPc'[0] = "send"
               /\ decLocal'[0] = [Timestamp |-> Head(rawFrames).Timestamp,
                                  PGN |-> Head(rawFrames).PGN,
                                  PGNName |-> "Unknown",
                                  Measurement |-> "nmea_general",
                                  Decoded |-> FALSE,
                                  Raw |-> Head(rawFrames).Data]]_vars
    /\ [][(decPc[0] = "send" /\ decPc'[0] # "send" /\ ~done
              /\ Len(decodedData) < QueueSize)
            => decodedData' = Append(decodedData, decLocal[0])]_vars
    /\ [](decPc[0] = "send" => ENABLED DecSend(0))
    /\ [](\A k \in 1..Len(pushed) :
            pushed[k].PGN \notin Handlers =>
                (~pushed[k].Decoded /\ pushed[k].PGNName = "Unknown"
                    /\ pushed[k].Measurement = "nmea_general"))
    /\ [](\A p \in brokerPGNs :
            PushesOf(p) # {} => LatestMessage(p) = pushed[MaxOf(PushesOf(p))])

\* A frame without handler is the latest entry of its PGN, counted as a
\* failure next to a successfully decoded frame.
C16_Witness ==
    /\ stats.DecodeFailures = 1 /\ stats.DecodeSuccesses = 1
    /\ stats.MessagesProcessed = 2
    /\ LatestMessage(2) # Nil
    /\ ~pushed[Len(pushed)].Decoded
    /\ LatestMessage(2) = pushed[Len(pushed)]

\* C17: a payload that is not a JSON object, has no data key or whose data
\* yields no byte gives no frame; onMessage then enqueues nothing and
\* changes no statistics counter, so that only enqueued frames are ever
\* counted as processed.
C17_UnparsablePayloadDropped ==
    /\ [](\A payload \in InvalidPayloads :
            (payload.object => parseRawFrame(nArrived + 1, 1, payload) = Nil))
    /\ [](\A payload \in ValidPayloads :
            payload.object /\ parseRawFrame(nArrived + 1, 1, payload) # Nil)
    /\ [][(dropped'.parse # dropped.parse)
            => /\ dropped'.parse = dropped.parse + 1
               /\ UNCHANGED <<rawFrames, decodedData, stats, accepted,
                              decPc, decLocal, stPc, pushed>>
               /\ dropped'.raw = dropped.raw /\ dropped'.dec = dropped.dec]_vars
    /\ [](nArrived = Len(accepted) + dropped.raw + dropped.parse)
    /\ [](stats.MessagesProcessed <= Len(accepted))
    /\ [](\A k \in 1..Len(rawFrames) : rawFrames[k].Length > 0)

\* Payloads were dropped by the parser and a usable one, enqueued afterwards,
\* is the only message counted.
C17_Witness ==
    /\ dropped.parse >= 2
    /\ Len(accepted) = 1 /\ accepted[1] = nArrived
    /\ stats.MessagesProcessed = 1 /\ stats.DecodeFailures = 0

\* C18 (as claimed): every statistics report is computed from one state of
\* the counters: a snapshot has processed = successes + failures and a rate
\* within 0..100; the final line of Stop prints a message count and a rate
\* that belong to one state: the count printed is the one the rate was
\* computed from (zero if no rate was computed), and the rate is 100 percent
\* when no decode ever failed.
C18_ReportsFromOneState ==
    /\ [](GetSnapshot(stats).messages_processed
            = GetSnapshot(stats).decode_successes
                + GetSnapshot(stats).decode_failures)
    /\ [](GetSnapshot(stats).success_rate \in 0..100)
    /\ [][(mainPc = "log" /\ mainPc' = "stopped") =>
            IF summary.computed
            THEN /\ summary.processed = stats.MessagesProcessed
                 /\ summary.successes <= summary.processed
                 /\ stats.DecodeFailures = 0 =>
                       summary.successes = summary.processed
            ELSE stats.MessagesProcessed = 0]_vars

\* C19: while Push runs concurrently, the message a caller of GetLatestByPGN
\* reads through the returned pointer is one of the pushed messages, equal to
\* it in every field, and stays what it was when the pointer was returned,
\* whatever is pushed afterwards.
C19_HeldMessageStable ==
    held # Nil =>
        /\ Load(held) = heldSeen
        /\ \E k \in 1..Len(pushed) : pushed[k] = Load(held)

\* The caller still holds a message that later pushes have overwritten in the
\* ring and replaced in the index, while another Push is under way.
C19_Witness ==
    /\ held # Nil
    /\ Load(held) = heldSeen
    /\ inPush # NoPush
    /\ GetLatestByPGN(heldSeen.PGN) # held
    /\ \A i \in 0..(capacity - 1) : data[i] # heldSeen

\* The pushes still retained by the ring: the last min(N, capacity) of them.
Retained == {k \in 1..Len(pushed) : k > Len(pushed) - size}

\* C20: GetByTimeRange(start, end) returns exactly the retained messages with
\* start <= Timestamp <= end, both bounds inclusive, each as often as it is
\* retained, before and after the ring has wrapped.
C20_TimeRangeInclusive ==
    \A start \in 0..(MaxTimestamp + 1), end \in 0..(MaxTimestamp + 1) :
        LET result == GetByTimeRange(start, end)
            InRange == {k \in Retained : /\ start <= pushed[k].Timestamp
                                         /\ pushed[k].Timestamp <= end}
        IN  \A msg \in {result[i] : i \in 1..Len(result)}
                           \cup {pushed[k] : k \in InRange} :
                Cardinality({i \in 1..Len(result) : result[i] = msg})
                    = Cardinality({k \in InRange : pushed[k] = msg})

\* After a wrap, a range whose two bounds are the same timestamp returns some
\* but not all retained messages, and the full range returns them all.
C20_Witness ==
    /\ capacity >= 2
    /\ Len(pushed) > capacity
    /\ Len(GetByTimeRange(1, 1)) >= 1
    /\ Len(GetByTimeRange(1, 1)) < size
    /\ Len(GetByTimeRange(1, MaxTimestamp)) = size

\* C21: PGNFromParts(dp, pf, ps) is ((dp & 1) << 16) | (pf << 8) when pf < 240,
\* whatever ps is, and that value with ps in the low byte when pf >= 240;
\* (0, 0xF0, 0x1A) gives 61466 and (1, 0xEF, 0x12) gives 126720.
C21_PGNFromParts ==
    ret # NoCall =>
        /\ ret.value = (call.dp % 2) * 65536 + call.pf * 256
                     + (IF call.pf < 240 THEN 0 ELSE call.ps)
        /\ call.pf < 240 => ret.value = PGNFromParts(call.dp, call.pf, 0)
        /\ (call.dp = 0 /\ call.pf = 240 /\ call.ps = 26) => ret.value = 61466
        /\ (call.dp = 1 /\ call.pf = 239 /\ call.ps = 18) => ret.value = 126720

\* The call (1, 0xEF, 0x12) has returned with ps dropped.
C21_Witness ==
    /\ call = [fn |-> "PGNFromParts", dp |-> 1, pf |-> 239, ps |-> 18]
    /\ ret = [value |-> 126720]

\* The w bytes, lowest first, of the two's complement form of a value
\* returned by reader r.
LimbBytes(x) == LET u == (x + 65536) % 65536 IN <<u % 256, u \div 256>>

ValueBytes(r, v) ==
    CASE r \in {"u8", "i8"} -> <<(v + 256) % 256>>
      [] r \in {"u16le", "i16le"} -> LimbBytes(v)
      [] r = "u32le" -> LimbBytes(v[1]) \o LimbBytes(v[2])
      [] r = "i32le" ->
            LimbBytes(v % 65536) \o LimbBytes((v - (v % 65536)) \div 65536)
      [] r = "i64le" ->
            LimbBytes(v[1]) \o LimbBytes(v[2]) \o LimbBytes(v[3])
                \o LimbBytes(v[4])

\* The "field absent" sentinel of reader r as bytes: all ones for an
\* unsigned reader, the largest positive value for a signed one.
SentinelBytes(r) ==
    [j \in 1..ReaderWidth(r) |->
        IF j = ReaderWidth(r) /\ r \in {"i8", "i16le", "i32le", "i64le"}
        THEN 127 ELSE 255]

\* C22: a reader of width w on a payload of length L returns its sentinel,
\* without panicking, at every offset from L - w + 1 through L, and the
\* little-endian value of the w bytes at the offset when they all lie inside
\* the payload.
C22_ByteReaderBoundary ==
    ret # NoCall =>
        LET L == Len(call.data)
            w == ReaderWidth(call.fn)
            offset == call.offset
        IN  /\ (offset >= L - w + 1 /\ offset <= L) =>
                  /\ ret # Panicked
                  /\ ValueBytes(call.fn, ret.value) = SentinelBytes(call.fn)
            /\ (offset >= 0 /\ offset + w <= L) =>
                  /\ ret # Panicked
                  /\ ValueBytes(call.fn, ret.value)
                         = [j \in 1..w |-> call.data[offset + j]]

\* A four-byte signed read that starts inside the payload and ends one byte
\* past it has returned 0x7FFFFFFF.
C22_Witness ==
    /\ ret # NoCall
    /\ ret # Panicked
    /\ call.fn = "i32le"
    /\ Len(call.data) = 4
    /\ call.offset = 1
    /\ ret.value = 2147483647

\* The raw value raw = <<reader, offset>> of the call's payload lies inside
\* the payload and differs from the sentinel of its width.
HoldsValue(raw) ==
    /\ raw[2] + ReaderWidth(raw[1]) <= Len(call.data)
    /\ raw \in call.valid
    /\ call.fill = "ones" => raw[1] \in SignedReaders

\* The decoder reads the physical field e at this payload length and all
\* its raw values hold a value.
FieldOn(e) ==
    /\ e.from <= Len(call.data)
    /\ Len(call.data) <= e.upto
    /\ \A raw \in e.raws : HoldsValue(raw)

PhysicalKeys(pgn) == UNION {e.keys : e \in FieldLayout(pgn)}

MinLength(pgn) ==
    CASE pgn \in {127251, 129540} -> 3
      [] pgn = 128267 -> 5
      [] pgn \in {130306, 127245, 130312, 130313} -> 6
      [] pgn \in {127257, 128259} -> 7
      [] pgn \in {127250, 129026, 129025, 128275, 127237, 129284, 126992,
                  127508, 127489} -> 8
      [] pgn = 130310 -> 12
      [] pgn = 129029 -> 43

\* C24: for every registered PGN and every payload Decode returns a field
\* map (every read of the decoders stays inside the byte readers); the map
\* is the nil map exactly when the payload is shorter than the decoder's
\* minimum length, and the decode worker counts the nil map as not decoded.
C24_DecodeNeverFails ==
    ret # NoCall =>
        /\ ret.value.isNil <=> Len(call.data) < MinLength(call.pgn)
        /\ ret.value.isNil => (ret.value.keys = {} /\ ~DecodeSuccess(ret.value))

\* A two-byte payload for GNSS Satellites (minimum 3) has returned the nil
\* map.
C24_Witness ==
    /\ ret # NoCall
    /\ call.pgn = 129540
    /\ Len(call.data) = 2
    /\ ret.value = NilFields

\* The components of the score of the call under way.
CallComponents ==
    TackComponents(call.dt, call.gyPeak, call.rollDrop, call.overshoot)

\* C25: for dt, gyPeak, rollDrop, overshoot >= 0 the tack score lies in
\* 0..100 (0..1000 tenths); each of its four components is non-negative, and
\* the score is 100 whenever the components sum to 100 or more.
C25_TackScoreBounds ==
    ret # NoCall =>
        LET c == CallComponents
        IN  /\ ret.value >= 0
            /\ ret.value <= 1000
            /\ c.tNum >= 0 /\ c.gyNum >= 0 /\ c.rlNum >= 0 /\ c.osNum >= 0
            /\ c.tNum + c.gyNum + c.rlNum + c.osNum >= 1000 * c.den
                  => ret.value = 1000

\* A tack of zero duration: the time component alone is above 100 and the
\* score returned is 100.
C25_Witness ==
    /\ ret = [value |-> 1000]
    /\ call.dt = 0
    /\ CallComponents.tNum > 1000 * CallComponents.den

\* Tenths of a degree of a capture given in whole degrees.
Tenths(x) == (10 * x.n) \div x.d

\* The calibration of four captures worked out in integers: the mid and
\* the spans in 1/2000 of a degree, the weight in hundredths.
ExpectedCalibration(c0, stb, port, c1) ==
    LET W    == Min(90, 50 + Abs(Tenths(c1) - Tenths(c0)))
        midN == W * (Tenths(stb) + Tenths(port))
                    + (100 - W) * (Tenths(c0) + Tenths(c1))
    IN  [Mid     |-> Rat(midN, 2000),
         SpanPos |-> Rat(Max(2, 200 * Tenths(stb) - midN), 2000),
         SpanNeg |-> Rat(Max(2, midN - 200 * Tenths(port)), 2000)]

\* C26: a committed PerformCalibration holds mid = w*(stb+port)/2 +
\* (1-w)*(c0+c1)/2 with w = min(0.9, 0.5 + |c1-c0|/10), spanPos =
\* max(1e-3, stb-mid) and spanNeg = max(1e-3, mid-port); under such a
\* calibration ComputeBoom(v) returns relDeg = v - mid and norm = relDeg
\* over spanPos (relDeg >= 0) or spanNeg (relDeg < 0) clamped to
\* [-1.1, 1.1].  Captures (0, 45, -45, 0) give mid 0 and spans 45, 45, and
\* then ComputeBoom(22.5) = (22.5, 0.5); captures (1, 44, -46, -1) give
\* mid -0.7, spanPos 44.7 and spanNeg 45.3.
C26_Calibrator ==
    /\ (call # NoCall /\ call.fn = "PerformCalibration"
            /\ ret.err = NoError) =>
          /\ calibration = ret.value
          /\ calibration
                = ExpectedCalibration(call.c0, call.stb, call.port, call.c1)
          /\ (<<call.c0, call.stb, call.port, call.c1>>
                  = <<Float(0), Float(45), Float(-45), Float(0)>>) =>
                calibration = [Mid |-> Float(0), SpanPos |-> Float(45),
                               SpanNeg |-> Float(45)]
          /\ (<<call.c0, call.stb, call.port, call.c1>>
                  = <<Float(1), Float(44), Float(-46), Float(-1)>>) =>
                calibration = [Mid |-> Rat(-7, 10), SpanPos |-> Rat(447, 10),
                               SpanNeg |-> Rat(453, 10)]
    /\ (call # NoCall /\ call.fn = "ComputeBoom" /\ calibration # Nil
            /\ FLess(Float(0), calibration.SpanPos)
            /\ FLess(Float(0), calibration.SpanNeg)) =>
          LET relDeg == FSub(call.axisValue, calibration.Mid)
              span   == IF relDeg.n >= 0 THEN calibration.SpanPos
                        ELSE calibration.SpanNeg
              limit  == FMul(Rat(11, 10), span)
          IN  /\ ret.value.ok
              /\ ret.value.relDeg = relDeg
              /\ ret.value.norm =
                    (IF FLess(limit, relDeg) THEN Rat(11, 10)
                     ELSE IF FLess(relDeg, FNeg(limit)) THEN Rat(-11, 10)
                     ELSE Rat(relDeg.n * span.d, relDeg.d * span.n))
              /\ (calibration = [Mid |-> Float(0), SpanPos |-> Float(45),
                                 SpanNeg |-> Float(45)]
                    /\ call.axisValue = Rat(45, 2)) =>
                    /\ ret.value.relDeg = Rat(45, 2)
                    /\ ret.value.norm = Rat(1, 2)

C26_Witness ==
    /\ call # NoCall
    /\ call.fn = "PerformCalibration"
    /\ <<call.c0, call.stb, call.port, call.c1>>
          = <<Float(1), Float(44), Float(-46), Float(-1)>>
    /\ ret.err = NoError
    /\ calibration.Mid = Rat(-7, 10)

\* C27: every calibration the calibrator holds, whether PerformCalibration,
\* SetCalibration or LoadFromFile installed it, has spanPos >= 1e-3 and
\* spanNeg >= 1e-3, so that ComputeBoom never divides by zero or by a
\* negative span and always returns a norm within [-1.1, 1.1].
C27_SpansAtLeastMinimum ==
    /\ calibration # Nil =>
          /\ FGeq(calibration.SpanPos, MinSpan)
          /\ FGeq(calibration.SpanNeg, MinSpan)
    /\ (call # NoCall /\ call.fn = "ComputeBoom" /\ ret.value.ok) =>
          /\ FGeq(ret.value.norm, Rat(-11, 10))
          /\ FGeq(Rat(11, 10), ret.value.norm)

\* C28: after NewBayesianQA(d, sigma0) with sigma0 > 0, after every Update
\* and after every LoadState, mu and vr have length d and every variance
\* is greater than 0; Update never increases a variance.
C28_PosteriorWellFormed ==
    Running =>
        /\ Len(bq.mu) = bq.d
        /\ Len(bq.vr) = bq.d
        /\ \A i \in 1..Len(bq.vr) : FLess(Float(0), bq.vr[i])
        /\ (call # NoCall /\ call.fn = "Update"
                /\ Len(call.before.vr) = Len(bq.vr)) =>
              \A i \in 1..Len(bq.vr) : FGeq(call.before.vr[i], bq.vr[i])

\* C29: handed a feature vector whose length differs from d, PredictProba
\* returns exactly 0.5 and Update leaves the mean and the variance as they
\* were; neither call fails.
C29_LengthMismatchIgnored ==
    /\ (call # NoCall /\ call.fn = "PredictProba" /\ Len(call.x) # bq.d) =>
          ret = [value |-> [p |-> Rat(1, 2)]]
    /\ (call # NoCall /\ call.fn = "Update" /\ Len(call.x) # bq.d) =>
          /\ ret = [value |-> NoError]
          /\ bq = call.before

C29_Witness ==
    /\ call # NoCall
    /\ call.fn = "Update"
    /\ Len(call.x) > bq.d
    /\ iterations = MaxIterations
    /\ \E i \in 1..Len(bq.mu) : bq.mu[i] # Float(0)
    /\ bq = call.before

\* C30: loading from a missing file is not an error, for the calibration
\* and for the Bayesian posterior alike: the load reports success, the
\* state in memory is unchanged (uncalibrated, the prior) and Sensor.Start
\* succeeds.
C30_MissingFileIsNoError ==
    (call # NoCall /\ call.fn = "Start") =>
        /\ ret.value = NoError
        /\ files.cal.kind = "missing" =>
              /\ ret.loadFromFile = NoError
              /\ calibration = call.calibration
        /\ files.bayes.kind = "missing" =>
              /\ ret.loadState = NoError
              /\ bq = call.bq

\* C34: GetByTimeRange returns the matching messages in the order they were
\* pushed, oldest first, also after the ring has wrapped around.
C34_TimeRangeInPushOrder ==
    \A start \in 0..(MaxTimestamp + 1), end \in 0..(MaxTimestamp + 1) :
        GetByTimeRange(start, end)
            = SelectSeq(SubSeq(pushed, Len(pushed) - size + 1, Len(pushed)),
                        LAMBDA msg : /\ start <= msg.Timestamp
                                     /\ msg.Timestamp <= end)

\* C35: after any sequence of OnSample calls the sample buffer holds at
\* most MaxBufferSize samples, the most recently received ones in arrival
\* order; once full, each new sample evicts exactly the oldest one.
C35_BufferHoldsNewestSamples ==
    LET received == call.received
        kept     == Min(Len(received), edConfig.MaxBufferSize)
    IN  /\ Len(edBuffer) <= edConfig.MaxBufferSize
        /\ edBuffer = SubSeq(received, Len(received) - kept + 1, Len(received))

C35_Witness ==
    /\ Len(call.received) > edConfig.MaxBufferSize
    /\ Len(edBuffer) = edConfig.MaxBufferSize
    /\ edBuffer[1] = call.received[2]
    /\ edBuffer[1] # call.received[1]

\* C37: OnSample returns normally for every sample sequence: when the tack
\* rule matches, calculateOvershoot reads only indices 0..len-1 of the
\* valid boomNorm series, whatever its length (four included).
C37_OnSampleReturnsNormally == lastOutcome # "panic"


\* C39: frames are conserved through the pipeline: a frame accepted into
\* rawFrames is held in exactly one place at a time (the raw queue, one
\* decoder worker, the decoded queue or the ring history), so no frame is
\* taken by two workers; every pushed message carries the timestamp of a
\* distinct accepted frame; pushes <= MessagesProcessed <= frames accepted;
\* and MessagesProcessed counts every frame a worker took, the ones dropped
\* because decodedData was full included.
C39_FramesConserved ==
    LET sending == {i \in WorkerIds : decPc[i] = "send"}
        stamps == [k \in 1..Len(rawFrames) |-> rawFrames[k].Timestamp]
                  \o [k \in 1..Len(decodedData) |-> decodedData[k].Timestamp]
                  \o [k \in 1..Len(pushed) |-> pushed[k].Timestamp]
        all == {stamps[k] : k \in 1..Len(stamps)}
               \cup {decLocal[i].Timestamp : i \in sending}
    IN  /\ Cardinality(all) = Len(stamps) + Cardinality(sending)
        /\ \A k \in 1..Len(pushed) :
              \E j \in 1..Len(accepted) : accepted[j] = pushed[k].Timestamp
        /\ \A j, k \in 1..Len(pushed) :
              pushed[j].Timestamp = pushed[k].Timestamp => j = k
        /\ Len(pushed) <= stats.MessagesProcessed
        /\ stats.MessagesProcessed <= Len(accepted)
        /\ stats.MessagesProcessed
              = Len(pushed) + Len(decodedData) + dropped.dec
                + Cardinality(sending)

\* A decoded message was dropped at a full decodedData after another one had
\* been pushed: the processed count exceeds the pushes.
C39_Witness ==
    /\ dropped.dec >= 1
    /\ Len(pushed) >= 1
    /\ stats.MessagesProcessed > Len(pushed)
    /\ decodedData = <<>> /\ \A i \in WorkerIds : decPc[i] # "send"


\* C40: the latest-by-PGN index is never pruned.  Once capacity or more later
\* pushes of other PGNs have overwritten the slot of the last message of PGN
\* p, GetLatestByPGN(p) still returns that message unchanged, although no
\* message of PGN p is returned by GetRecent(capacity) or by GetByTimeRange
\* over all time any more; and no push ever removes an index entry.
C40_IndexNeverPruned ==
    /\ \A p \in RingPGNs :
          (PushesOf(p) # {} /\ Len(pushed) - MaxOf(PushesOf(p)) >= capacity)
             => /\ LatestMessage(p) = pushed[MaxOf(PushesOf(p))]
                /\ \A i \in 1..Len(GetRecent(capacity)) :
                      GetRecent(capacity)[i].PGN # p
                /\ \A i \in 1..Len(GetByTimeRange(0, MaxTimestamp)) :
                      GetByTimeRange(0, MaxTimestamp)[i].PGN # p
    /\ \A i \in 1..Len(pushed) : pushed[i].PGN \in DOMAIN latestByPGN

\* The ring has wrapped over the only message of some PGN, and the index
\* still answers with it.
C40_Witness ==
    \E p \in RingPGNs :
        /\ Cardinality(PushesOf(p)) = 1
        /\ Len(pushed) - MaxOf(PushesOf(p)) >= capacity
        /\ capacity >= 2
        /\ LatestMessage(p) = pushed[MaxOf(PushesOf(p))]
        /\ Len(GetRecent(capacity)) = capacity


\* C38 (as claimed): the CSV writer is never used after it was closed: once
\* Stop() has called Close, the storage worker performs no WriteDecoded.
C38_NoWriteAfterClose ==
    [][csvRows' # csvRows => ~csvClosed]_vars


\* C32: parseRawFrame takes the PGN from the `pgn` key when it is present (a
\* number) and otherwise derives it from (dp, pf, ps), a missing part counting
\* as 0; takes the source from `src` when present, otherwise the low 8 bits
\* of `id`, otherwise 0; takes the timestamp from `ts` when present,
\* otherwise from `timestamp`, otherwise the current time.  A key holding a
\* value that is not a number is treated as absent.
C32_HeaderPrecedence ==
    ret # NoCall =>
        LET p == call.payload
            has(k) == p[k].kind = "number"
            part(k) == IF has(k) THEN p[k].num ELSE 0
        IN  /\ has("pgn") => ret.value.PGN = p.pgn.num
            /\ ~has("pgn") =>
                  ret.value.PGN = (part("dp") % 2) * 65536 + part("pf") * 256
                                  + (IF part("pf") < 240 THEN 0 ELSE part("ps"))
            /\ has("src") => ret.value.Source = p.src.num
            /\ (~has("src") /\ has("id")) => ret.value.Source = p.id.num % 256
            /\ (~has("src") /\ ~has("id")) => ret.value.Source = 0
            /\ has("ts") => ret.value.Timestamp = p.ts.num
            /\ (~has("ts") /\ has("timestamp")) =>
                  ret.value.Timestamp = p.timestamp.num
            /\ (~has("ts") /\ ~has("timestamp")) => ret.value.Timestamp = call.now

\* A payload with both keys of each pair: pgn, src and ts win although dp,
\* pf, ps, id and timestamp are present.
C32_Witness ==
    /\ ret # NoCall
    /\ call.payload.pgn = Number(127257) /\ call.payload.pf = Number(240)
    /\ call.payload.src = Number(0) /\ call.payload.id = Number(803)
    /\ call.payload.ts = Number(7) /\ call.payload.timestamp = Number(9)
    /\ ret.value = [Timestamp |-> 7, PGN |-> 127257, Source |-> 0]


\* C31 (as claimed): the fused boat speed is sog_kts of the latest PGN 129026
\* message, or water_speed_kts of the latest PGN 128259 message when sog_kts
\* is absent or zero (0 when that is absent too), both in
\* GetCurrentData().BoatSpeed and in GetBoatSpeed(), so that the two agree in
\* every buffer state.
C31_BoatSpeedAgrees ==
    LET sog == LatestField(PGN_SOG, "sog_kts")
        ws == LatestField(PGN_WaterSpeed, "water_speed_kts")
        fused == IF sog.ok /\ sog.v # 0 THEN sog.v
                 ELSE IF ws.ok THEN ws.v
                 ELSE 0
    IN  /\ GetCurrentData.BoatSpeed = fused
        /\ GetBoatSpeed = fused
        /\ GetCurrentData.BoatSpeed = GetBoatSpeed


\* C36: the complementary filter is a two-state machine.  GetState reports
\* initialized = false before the first Update and after every Reset; the
\* first Update after construction or Reset sets roll and pitch to the
\* accelerometer tilt alone and records the sample time; every later Update
\* blends the gyro prediction and the accelerometer tilt with dt capped at
\* 0.2 s and alpha = 1 when dt <= 0; initialized stays true until Reset.
C36_FilterStateMachine ==
    /\ [](call.fn = "NewComplementaryFilter" => ~GetState(filter).initialized)
    /\ [](call.fn = "Reset" => GetState(filter) =
             [roll |-> Float(0), pitch |-> Float(0), initialized |-> FALSE])
    /\ [](call.fn = "GetState" =>
             /\ ret.value.initialized = filter.initialized
             /\ ret.value.roll = filter.roll /\ ret.value.pitch = filter.pitch)
    /\ [][call'.fn = "GetState" => filter' = filter]_vars
    /\ [][(filter.initialized /\ call'.fn # "Reset") => filter'.initialized]_vars
    /\ [](call.fn = "Update" =>
            LET r == call.reading
                prev == call.before
                tilt == accTiltDeg(r.AccelY, -r.AccelZ, r.AccelX)
                gap == FSub(Rat(r.t, 10), prev.lastTime)
                dt == mathMin(gap, Rat(1, 5))
                alpha == IF FGeq(Float(0), gap) THEN Float(1)
                         ELSE FDiv(Rat(7, 10), FAdd(Rat(7, 10), dt))
                gyroRoll == FAdd(prev.roll, FMul(Float(r.GyroY), dt))
            IN  /\ filter.initialized
                /\ filter.lastTime = Rat(r.t, 10)
                /\ ret.value = [roll |-> filter.roll, pitch |-> filter.pitch]
                /\ ~prev.initialized =>
                      filter.roll = tilt.roll /\ filter.pitch = tilt.pitch
                /\ prev.initialized =>
                      /\ filter.roll = FAdd(FMul(alpha, gyroRoll),
                                            FMul(FSub(Float(1), alpha), tilt.roll))
                      /\ FGeq(Float(0), gap) => filter.roll = gyroRoll
                      /\ FGeq(gap, Rat(1, 5)) =>
                            filter.roll =
                               FAdd(FMul(Rat(7, 9), FAdd(prev.roll,
                                                         Rat(r.GyroY, 5))),
                                    FMul(Rat(2, 9), tilt.roll)))

\* An initialized filter has blended a reading that came more than 0.2 s
\* after the previous one while rotating: the roll moved by the capped step.
C36_Witness ==
    /\ call.fn = "Update"
    /\ call.before.initialized
    /\ call.reading.t = 4 /\ call.before.lastTime = Float(0)
    /\ call.reading.GyroY = 10
    /\ call.before.roll = Float(45)
    /\ filter.roll # call.before.roll
    /\ filter.initialized


\* C33: while no calibration is committed, ProcessIMU returns FilteredData
\* whose BoomRelDeg and BoomNorm are NaN and forwards nothing to the event
\* detector: its buffer stays empty and no event is emitted.  A sample
\* reaches the detector exactly when a calibration exists and boomNorm is
\* finite, and it carries that boomNorm.
C33_UncalibratedNeverFeeds ==
    /\ [](calibration = Nil => edBuffer = <<>> /\ emitted = <<>> /\ nSamples = 0)
    /\ []((call.fn = "ProcessIMU" /\ call.calibration = Nil) =>
             /\ IsNaN(ret.value.BoomRelDeg)
             /\ IsNaN(ret.value.BoomNorm))
    /\ []((call.fn = "ProcessIMU" /\ call.calibration # Nil) =>
             LET c == call.calibration
                 d == FSub(ret.value.RollDeg, c.Mid)
             IN  /\ ret.value.BoomRelDeg = d
                 /\ (IsFiniteFloat(ret.value.BoomNorm)
                       => /\ edBuffer # <<>>
                          /\ edBuffer[Len(edBuffer)].boomNorm
                                = Hundredths(ret.value.BoomNorm)
                          /\ edBuffer[Len(edBuffer)].t = call.reading.t))
    /\ [][call'.fn = "ProcessIMU" =>
            /\ (nSamples' # nSamples \/ edBuffer' # edBuffer)
                  <=> (calibration # Nil /\ IsFiniteFloat(ret'.value.BoomNorm))
            /\ nSamples' \in {nSamples, nSamples + 1}]_vars
    /\ [][call'.fn # "ProcessIMU" => UNCHANGED <<edBuffer, emitted, nSamples>>]_vars

\* The uncalibrated sensor has processed two readings: the result carries
\* NaN and the detector has seen nothing.
C33_Witness ==
    /\ call.fn = "ProcessIMU" /\ call.seq >= 2
    /\ calibration = Nil
    /\ filter.initialized /\ filter.roll # Float(0)
    /\ IsNaN(ret.value.BoomNorm) /\ IsNaN(ret.value.BoomRelDeg)
    /\ edBuffer = <<>> /\ nSamples = 0

====
